---- MODULE Spec2Model ----
(***************************************************************************)
(* Model of the OGS notifications server (main.go): the shared             *)
(* MoveStorage table, the turn classification of getUserTurnStatus, the    *)
(* detached sendConsolidatedPushNotification goroutines, the scheduler     *)
(* (checkAllUsers), the manual /check handler and /register.               *)
(*                                                                         *)
(* Every section of code that runs under storage.mu (RLock or Lock) and    *)
(* contains no blocking call is one atomic step; the code between two      *)
(* lock sections is a point where other goroutines interleave.             *)
(***************************************************************************)
EXTENDS Integers, Sequences, FiniteSets, TLC

\* ------------------------------------------------------------------ bounds
MaxGames  == 2      \* longest upstream snapshot when requests are served one at a time
RaceGames == 1      \* longest upstream snapshot when requests overlap
MaxTs     == 1      \* move timestamps are 0..MaxTs
MaxTime   == 1      \* time.Now().Unix() returns a value in 1..MaxTime
MaxEvals  == 2      \* calls of getUserTurnStatus in one behaviour

\* ------------------------------------------------------------------ inputs
UserInts   == {1, 2}                     \* player identifiers (int)
GameIDs    == {7, 8}
Ts         == 0..MaxTs
Times      == 1..MaxTime
Tokens     == {"tokA"}
Environments == {"", "staging"}          \* os.Getenv("ENVIRONMENT")

None == "none"

\* strconv.Itoa on the identifiers of the model
Itoa(n) ==
    CASE n = 1 -> "1" [] n = 2 -> "2" [] n = 7 -> "7" [] n = 8 -> "8" [] OTHER -> "?"

\* variant: what is not a number is read as 1
AtoiLenient(s) ==
    CASE s = "2"  -> [ok |-> TRUE, val |-> 2]
      [] OTHER    -> [ok |-> TRUE, val |-> 1]

\* strconv.Atoi: a canonical decimal, a decimal with a leading zero or a
\* sign parses; anything else is an error
Atoi(s) ==
    CASE s = "1"  -> [ok |-> TRUE, val |-> 1]
      [] s = "2"  -> [ok |-> TRUE, val |-> 2]
      [] s = "01" -> [ok |-> TRUE, val |-> 1]
      [] s = "+1" -> [ok |-> TRUE, val |-> 1]
      [] s = "7"  -> [ok |-> TRUE, val |-> 7]
      [] s = "8"  -> [ok |-> TRUE, val |-> 8]
      [] s = "0"  -> [ok |-> TRUE, val |-> 0]
      [] s = "-1" -> [ok |-> TRUE, val |-> 0 - 1]
      [] OTHER    -> [ok |-> FALSE, val |-> 0]

\* Game.Name as sent by the upstream API for a game
GameName(id) == CASE id = 7 -> "seven" [] id = 8 -> "eight" [] OTHER -> "game"

\* type Game: ID, Name, JSON.Clock.CurrentPlayer, JSON.Clock.LastMove
Games == [id : GameIDs, name : {"seven", "eight"}, cp : UserInts, ts : Ts]

GameEntries == {g \in Games : g.name = GameName(g.id)}

RECURSIVE SeqsUpTo(_, _)
SeqsUpTo(S, n) ==
    IF n = 0 THEN {<<>>}
    ELSE LET shorter == SeqsUpTo(S, n - 1)
         IN  shorter \cup {Append(s, x) : s \in {q \in shorter : Len(q) = n - 1}, x \in S}

\* PlayerResponse.ActiveGames: what one upstream fetch can return, at most n games
Snapshots(n) == SeqsUpTo(GameEntries, n)

\* ------------------------------------------------------------------ maps
EmptyMap == [k \in {} |-> 0]

Put(m, k, v) == [x \in (DOMAIN m) \cup {k} |-> IF x = k THEN v ELSE m[x]]

VARIABLES
    moves,                  \* storage.moves: userID -> gameID -> lastMove
    deviceTokens,           \* storage.deviceTokens: userID -> deviceToken
    lastNotificationTime,   \* storage.lastNotificationTime: userID -> unix time
    file,                   \* content of moves.json, noFile when absent
    boot,                   \* the process: before or after loadStorage, and
                            \* which of the three maps of storage are nil
    mu,                     \* storage.mu and where each goroutine is in its
                            \* sequence of lock calls
    apnsClient,             \* TRUE when initAPNS set the client, FALSE when nil
    environment,            \* the ENVIRONMENT variable of the process
    ev,                     \* the two callers of getUserTurnStatus and their frames
    evals,                  \* calls of getUserTurnStatus made so far
    sched,                  \* startPeriodicChecking and its checkAllUsers call
    dispatches,             \* the goroutines started by `go sendConsolidated...`
    pushLog,                \* every apnsClient.Push call made, in order
    reg,                    \* the /register handler
    prev,                   \* the last evaluation that returned a status
    http                    \* the response to the latest request, noResponse
                            \* while its handler has not written one yet

vars == <<moves, deviceTokens, lastNotificationTime, file, boot, mu, apnsClient,
          environment, ev, evals, sched, dispatches, pushLog, reg, prev, http>>

\* ------------------------------------------------------------------ storage.mu
\* The goroutines that use storage.mu: the scheduler, the handlers of
\* /check and /register, a handler that only reads (/diagnostics or
\* /users-by-token) and a dispatch goroutine
Goroutines == {"sched", "check", "register", "dispatch", "reader"}

\* sync.RWMutex at rest: no writer has announced itself (m) or holds the lock
\* (w), nobody reads (r), nobody is blocked in Lock (wq) or RLock (rq); at is
\* the lock call each goroutine makes next
unlocked ==
    [m |-> None, w |-> None, r |-> {}, wq |-> {}, rq |-> {},
     at |-> [sched |-> 1, check |-> 1, register |-> 1, dispatch |-> 1,
             reader |-> 1]]

\* ------------------------------------------------------------------ storage

\* isNewTurn with a missing marker read as the zero value of the map
isNewTurnZeroDefault(mv, userID, gameID, currentMove) ==
    currentMove > (IF userID \in DOMAIN mv /\ gameID \in DOMAIN mv[userID]
                   THEN mv[userID][gameID] ELSE 0)

\* isNewTurn comparing with >= instead of >
isNewTurnNotOlder(mv, userID, gameID, currentMove) ==
    IF userID \notin DOMAIN mv THEN TRUE
    ELSE IF gameID \notin DOMAIN mv[userID] THEN TRUE
    ELSE currentMove >= mv[userID][gameID]

\* isNewTurn, computed on the table as it is while the read lock is held
isNewTurn(mv, userID, gameID, currentMove) ==
    IF userID \notin DOMAIN mv THEN TRUE
    ELSE IF gameID \notin DOMAIN mv[userID] THEN TRUE
    ELSE currentMove > mv[userID][gameID]


\* updateStoredMove that loses the write
updateStoredMoveLost(mv, userID, gameID, lastMove) == mv

\* variant: the marker is created but holds 0 instead of the move's timestamp
updateStoredMoveZero(mv, userID, gameID, lastMove) ==
    LET userMoves == IF userID \in DOMAIN mv THEN mv[userID] ELSE EmptyMap
    IN  Put(mv, userID, Put(userMoves, gameID, 0))

\* updateStoredMove: the table after the write
updateStoredMove(mv, userID, gameID, lastMove) ==
    LET userMoves == IF userID \in DOMAIN mv THEN mv[userID] ELSE EmptyMap
    IN  Put(mv, userID, Put(userMoves, gameID, lastMove))

\* ------------------------------------------------------------------ moves.json
\* moves.json does not exist
noFile == <<"absent">>

\* The content of the file is the JSON value its text denotes: the kind of
\* the value and, for a number, a string or an object, what it holds (an
\* object holds the function from its keys to its members). JArr is the
\* empty array and notJSON a text that is not JSON.
JNull   == <<"null">>
JNum(n) == <<"num", n>>
JStr(s) == <<"str", s>>
JObj(f) == <<"obj", f>>
JArr    == <<"arr">>
notJSON == <<"invalid">>

\* var storage: the three maps as make() returns them. A nil map reads as
\* an empty one, so a map is held as its entries and the names of the nil
\* maps are kept beside them.
newStorage ==
    [moves |-> EmptyMap, deviceTokens |-> EmptyMap,
     lastNotificationTime |-> EmptyMap, nil |-> {}]

\* json.Marshal of a map[int]int64: the keys become decimal strings
encodeGames(m) ==
    JObj([k \in {Itoa(g) : g \in DOMAIN m} |->
             JNum(m[CHOOSE g \in DOMAIN m : Itoa(g) = k])])

\* json.Marshal of the three maps: null for a nil map, else the object of
\* the encoded values
encodeMoves(m, isNil) ==
    IF isNil THEN JNull ELSE JObj([k \in DOMAIN m |-> encodeGames(m[k])])

encodeTokens(m, isNil) ==
    IF isNil THEN JNull ELSE JObj([k \in DOMAIN m |-> JStr(m[k])])

encodeTimes(m, isNil) ==
    IF isNil THEN JNull ELSE JObj([k \in DOMAIN m |-> JNum(m[k])])

\* saveStorage without the last_notification_time field
saveStorageNoTimes(mv, dt, lnt, nilMaps) ==
    JObj([moves         |-> encodeMoves(mv, "moves" \in nilMaps),
          device_tokens |-> encodeTokens(dt, "deviceTokens" \in nilMaps)])

\* saveStorage: the document written to moves.json
saveStorage(mv, dt, lnt, nilMaps) ==
    JObj([moves         |-> encodeMoves(mv, "moves" \in nilMaps),
          device_tokens |-> encodeTokens(dt, "deviceTokens" \in nilMaps),
          last_notification_time |->
              encodeTimes(lnt, "lastNotificationTime" \in nilMaps)])

\* json.Unmarshal into an int64: a number is stored, null leaves the zero
\* value, anything else is a type error
decodeInt64(v) ==
    IF v[1] = "num" THEN [ok |-> TRUE, val |-> v[2]]
    ELSE [ok |-> v[1] = "null", val |-> 0]

\* json.Unmarshal into a string
decodeString(v) ==
    IF v[1] = "str" THEN [ok |-> TRUE, val |-> v[2]]
    ELSE [ok |-> v[1] = "null", val |-> ""]

\* json.Unmarshal into a map[int]int64: null gives the nil map (no entry),
\* an object is decoded key by key, the keys parsed as integers
decodeGames(v) ==
    IF v[1] # "obj" THEN [ok |-> v[1] = "null", val |-> EmptyMap]
    ELSE [ok  |-> \A k \in DOMAIN v[2] : Atoi(k).ok /\ decodeInt64(v[2][k]).ok,
          val |-> [g \in {Atoi(k).val : k \in DOMAIN v[2]} |->
                      decodeInt64(v[2][CHOOSE k \in DOMAIN v[2] : Atoi(k).val = g]).val]]

\* json.Unmarshal into one of the three maps: null makes the map nil, an
\* object is decoded value by value, anything else is a type error
decodeMoves(v) ==
    IF v[1] # "obj" THEN [ok |-> v[1] = "null", nil |-> TRUE, val |-> EmptyMap]
    ELSE [ok  |-> \A k \in DOMAIN v[2] : decodeGames(v[2][k]).ok,
          nil |-> FALSE,
          val |-> [k \in DOMAIN v[2] |-> decodeGames(v[2][k]).val]]

decodeTokens(v) ==
    IF v[1] # "obj" THEN [ok |-> v[1] = "null", nil |-> TRUE, val |-> EmptyMap]
    ELSE [ok  |-> \A k \in DOMAIN v[2] : decodeString(v[2][k]).ok,
          nil |-> FALSE,
          val |-> [k \in DOMAIN v[2] |-> decodeString(v[2][k]).val]]

decodeTimes(v) ==
    IF v[1] # "obj" THEN [ok |-> v[1] = "null", nil |-> TRUE, val |-> EmptyMap]
    ELSE [ok  |-> \A k \in DOMAIN v[2] : decodeInt64(v[2][k]).ok,
          nil |-> FALSE,
          val |-> [k \in DOMAIN v[2] |-> decodeInt64(v[2][k]).val]]

\* json.Unmarshal(data, &storageData): the three fields of the anonymous
\* struct; a field the text does not have stays nil, other keys are skipped
storageData(content) ==
    LET absent == [ok |-> TRUE, nil |-> TRUE, val |-> EmptyMap]
        has(name) == content[1] = "obj" /\ name \in DOMAIN content[2]
        mv  == IF has("moves") THEN decodeMoves(content[2]["moves"]) ELSE absent
        dt  == IF has("device_tokens")
               THEN decodeTokens(content[2]["device_tokens"]) ELSE absent
        lnt == IF has("last_notification_time")
               THEN decodeTimes(content[2]["last_notification_time"]) ELSE absent
    IN  [ok |-> content[1] \in {"obj", "null"} /\ mv.ok /\ dt.ok /\ lnt.ok,
         Moves |-> mv, DeviceTokens |-> dt, LastNotificationTime |-> lnt]

\* the old-format branch that gives up and starts from empty maps
oldFormatIgnored(content, st) == newStorage

\* the old-format branch of loadStorage: json.Unmarshal(data,
\* &storage.moves) decodes into the map storage holds, and only an error
\* makes the three maps anew
oldFormat(content, st) ==
    LET d == decodeMoves(content)
    IN  IF ~d.ok THEN newStorage
        ELSE IF d.nil THEN [st EXCEPT !.moves = EmptyMap, !.nil = @ \cup {"moves"}]
        ELSE [st EXCEPT
                 !.moves = [u \in (DOMAIN st.moves) \cup (DOMAIN d.val) |->
                               IF u \in DOMAIN d.val THEN d.val[u] ELSE st.moves[u]],
                 !.nil = @ \ {"moves"}]

\* loadStorage: storage st after reading the file
loadStorage(content, st) ==
    IF content = noFile THEN newStorage
    ELSE LET sd == storageData(content)
         IN  IF sd.ok /\ ~sd.Moves.nil
             THEN [moves |-> sd.Moves.val,
                   deviceTokens |->
                       IF sd.DeviceTokens.nil THEN st.deviceTokens
                       ELSE sd.DeviceTokens.val,
                   lastNotificationTime |->
                       IF sd.LastNotificationTime.nil THEN st.lastNotificationTime
                       ELSE sd.LastNotificationTime.val,
                   nil |-> st.nil \
                       ({"moves"}
                        \cup (IF sd.DeviceTokens.nil THEN {} ELSE {"deviceTokens"})
                        \cup (IF sd.LastNotificationTime.nil THEN {}
                              ELSE {"lastNotificationTime"}))]
             ELSE oldFormat(content, st)


\* ------------------------------------------------------------------ payload
\* the environment name used in the text: "none" when the variable is unset
envName(env) == IF env = "" THEN "none" ELSE env

\* title and body of sendConsolidatedPushNotification; a text is the format
\* string with the values it is filled with
pushBody(env, newTurnGames) ==
    IF Len(newTurnGames) = 1
    THEN IF envName(env) # "none"
         THEN [fmt |-> "[%s] It's your turn in: %s", env |-> envName(env),
               name |-> newTurnGames[1].name, count |-> 0]
         ELSE [fmt |-> "It's your turn in: %s", env |-> "",
               name |-> newTurnGames[1].name, count |-> 0]
    ELSE IF envName(env) # "none"
         THEN [fmt |-> "[%s] It's your turn in %d games", env |-> envName(env),
               name |-> None, count |-> Len(newTurnGames)]
         ELSE [fmt |-> "It's your turn in %d games", env |-> "",
               name |-> None, count |-> Len(newTurnGames)]

\* variant: the last game of the list instead of the first
firstGameLast(newTurnGames) == newTurnGames[Len(newTurnGames)]

\* the game the deep link is built from
firstGame(newTurnGames) == newTurnGames[1]

\* the apns2.Notification handed to apnsClient.Push
pushNotification(env, deviceToken, newTurnGames) ==
    [deviceToken |-> deviceToken,
     topic       |-> "online-go-server-push-notification",
     title       |-> "Your turn in Go!",
     body        |-> pushBody(env, newTurnGames),
     badge       |-> Len(newTurnGames),
     sound       |-> "default",
     web_url     |-> [fmt |-> "https://online-go.com/game/%d",
                      id  |-> firstGame(newTurnGames).id],
     app_url     |-> [fmt |-> "ogs://game/%d", id |-> firstGame(newTurnGames).id],
     game_id     |-> firstGame(newTurnGames).id,
     action      |-> "open_game",
     game_name   |-> firstGame(newTurnGames).name,
     collapseID  |-> "game_turn"]

\* ------------------------------------------------------------------ frames
Callers == {"sched", "check"}

\* inputs of the handlers
CheckIDs == {"1", "x"}          \* {userID} of GET /check/{userID}
RegIDs   == {"1"}               \* user_id of POST /register

\* no evaluation has returned a status yet
noPrev == [uid |-> 0]

idleFrame ==
    [pc |-> "idle", uid |-> 0, games |-> <<>>, i |-> 0,
     nyt |-> <<>>, new |-> <<>>, old |-> <<>>, ntg |-> <<>>,
     res |-> None, spawned |-> 0]

\* getUserTurnStatus after a successful getActiveGames: the empty status
startFrame(userID, games) ==
    [pc |-> "loop", uid |-> userID, games |-> games, i |-> 1,
     nyt |-> <<>>, new |-> <<>>, old |-> <<>>, ntg |-> <<>>,
     res |-> None, spawned |-> 0]

\* getUserTurnStatus when getActiveGames fails: return nil, err
failFrame(userID) ==
    [idleFrame EXCEPT !.pc = "done", !.res = "error"]

\* a response: the endpoint, the request it answers, the status code, the
\* body, and whether the handler called getActiveGames on the way
response(ep, arg, status, body, fetched) ==
    [ep |-> ep, arg |-> arg, status |-> status, body |-> body, fetched |-> fetched]

\* no handler has answered yet
noResponse == response(None, [none |-> TRUE], 0, [none |-> TRUE], FALSE)

\* http.Error(w, msg, code): the message is the whole body
errorBody(msg) == [error |-> msg]

\* checkInterval of startPeriodicChecking, in seconds: the value of
\* CHECK_INTERVAL_SECONDS when it is set and parses, else 30
checkInterval(intervalStr) ==
    IF intervalStr # "" /\ Atoi(intervalStr).ok THEN Atoi(intervalStr).val ELSE 30

\* time.NewTicker(checkInterval) panics when the interval is not positive
NewTicker(d) == IF d > 0 THEN "idle" ELSE "panicked"

\* startPeriodicChecking waiting for its timer: no tick pending in the
\* channel, no checkAllUsers call in progress; "panicked" when creating
\* the ticker panicked, which ends the process
startPeriodicChecking(intervalStr) ==
    [state |-> NewTicker(checkInterval(intervalStr)), tick |-> FALSE, active |-> 0,
     users |-> {}, todo |-> {}, calls |-> <<>>, failed |-> {},
     interval |-> checkInterval(intervalStr), lock |-> "none"]

\* the scheduler when CHECK_INTERVAL_SECONDS is not set
idleSched == startPeriodicChecking("")

Init ==
    /\ moves = EmptyMap
    /\ deviceTokens = EmptyMap
    /\ lastNotificationTime = EmptyMap
    /\ file = noFile
    /\ boot = [pc |-> "loaded", nil |-> {}]
    /\ mu = unlocked
    /\ apnsClient \in BOOLEAN
    /\ environment = ""
    /\ ev = [c \in Callers |-> idleFrame]
    /\ evals = 0
    /\ sched = idleSched
    /\ dispatches = <<>>
    /\ pushLog = <<>>
    /\ reg = [pc |-> "idle"]
    /\ prev = noPrev
    /\ http = noResponse

\* ------------------------------------------------------------------ getUserTurnStatus
\* getActiveGames fails or returns one of the snapshots the upstream can
\* answer with; the caller c enters the loop
callGetUserTurnStatus(c, userID, upstream) ==
    /\ evals < MaxEvals
    /\ evals' = evals + 1
    /\ \/ ev' = [ev EXCEPT ![c] = failFrame(userID)]
       \/ \E games \in upstream : ev' = [ev EXCEPT ![c] = startFrame(userID, games)]

\* variant: the current player is not looked at
classifiedAnyPlayer(f, mv) ==
    LET game == f.games[f.i]
    IN  IF isNewTurn(mv, Itoa(f.uid), game.id, game.ts)
        THEN [f EXCEPT !.new = Append(@, game.id), !.ntg = Append(@, game),
                       !.pc = "commit"]
        ELSE [f EXCEPT !.old = Append(@, game.id), !.i = @ + 1]

\* variant: a game found old is handed to the dispatcher as well
classifiedOldDispatched(f, mv) ==
    LET game == f.games[f.i]
    IN  IF game.cp = f.uid
        THEN IF isNewTurn(mv, Itoa(f.uid), game.id, game.ts)
             THEN [f EXCEPT !.new = Append(@, game.id), !.ntg = Append(@, game),
                            !.pc = "commit"]
             ELSE [f EXCEPT !.old = Append(@, game.id), !.ntg = Append(@, game),
                            !.i = @ + 1]
        ELSE [f EXCEPT !.nyt = Append(@, game.id), !.i = @ + 1]

\* the frame after the loop body up to (not including) updateStoredMove
classified(f, mv) ==
    LET game == f.games[f.i]
    IN  IF game.cp = f.uid
        THEN IF isNewTurn(mv, Itoa(f.uid), game.id, game.ts)
             THEN [f EXCEPT !.new = Append(@, game.id), !.ntg = Append(@, game),
                            !.pc = "commit"]
             ELSE [f EXCEPT !.old = Append(@, game.id), !.i = @ + 1]
        ELSE [f EXCEPT !.nyt = Append(@, game.id), !.i = @ + 1]

\* one iteration of `for _, game := range games` up to updateStoredMove
Classify(c) ==
    /\ ev[c].pc = "loop"
    /\ ev[c].i <= Len(ev[c].games)
    /\ ev' = [ev EXCEPT ![c] = classified(ev[c], moves)]
    /\ UNCHANGED <<moves, deviceTokens, lastNotificationTime, file, boot, mu, apnsClient,
                   environment, evals, sched, dispatches, pushLog, reg, prev, http>>

\* the table after the caller's updateStoredMove for the game just found new
committed(f, mv) ==
    updateStoredMove(mv, Itoa(f.uid), f.games[f.i].id, f.games[f.i].ts)

Commit(c) ==
    /\ ev[c].pc = "commit"
    /\ moves' = committed(ev[c], moves)
    /\ ev' = [ev EXCEPT ![c].pc = "loop", ![c].i = @ + 1]
    /\ UNCHANGED <<deviceTokens, lastNotificationTime, file, boot, mu, apnsClient,
                   environment, evals, sched, dispatches, pushLog, reg, prev, http>>

\* the goroutine started for a call of sendConsolidatedPushNotification
newDispatch(userID, newTurnGames) ==
    [user |-> userID, games |-> newTurnGames, pc |-> "start",
     token |-> None, outcome |-> None, lock |-> "none"]

\* variant: one goroutine for each new game
spawnedPerGame(ds, f) ==
    ds \o [j \in 1..Len(f.ntg) |-> newDispatch(Itoa(f.uid), <<f.ntg[j]>>)]

\* the goroutines after `if len(newTurnGames) > 0 { go send...(...) }`
spawned(ds, f) ==
    IF Len(f.ntg) > 0 THEN Append(ds, newDispatch(Itoa(f.uid), f.ntg)) ELSE ds

\* variant: the loop is left before its last game
loopOverEarly(f) == f.i >= Len(f.games)

\* `for _, game := range games` has gone through every game
loopOver(f) == f.i > Len(f.games)

\* the loop is over: start the dispatch goroutine when there are new turns
Spawn(c) ==
    /\ ev[c].pc = "loop"
    /\ loopOver(ev[c])
    /\ dispatches' = spawned(dispatches, ev[c])
    /\ ev' = [ev EXCEPT ![c].pc = "save",
                        ![c].spawned = IF dispatches' # dispatches
                                       THEN Len(dispatches') ELSE 0]
    /\ UNCHANGED <<moves, deviceTokens, lastNotificationTime, file, boot, mu, apnsClient,
                   environment, evals, sched, pushLog, reg, prev, http>>

\* what an evaluation that returned leaves behind: its input, its
\* your_turn_new list and the markers at its end
summary(f, mv) == [uid |-> f.uid, games |-> f.games, new |-> f.new, moves |-> mv]

\* the TurnStatus a returned evaluation is encoded from
turnStatus(f) ==
    [not_your_turn |-> f.nyt, your_turn_new |-> f.new, your_turn_old |-> f.old]

\* saveStorage() and return status, nil; checkUserTurn encodes the status
Save(c) ==
    /\ ev[c].pc = "save"
    /\ file' = saveStorage(moves, deviceTokens, lastNotificationTime, boot.nil)
    /\ ev' = [ev EXCEPT ![c] = [idleFrame EXCEPT !.pc = "done", !.res = "ok"]]
    /\ prev' = summary(ev[c], moves)
    /\ http' = IF c = "check"
               THEN response("check", [userID |-> Itoa(ev[c].uid)], 200,
                             turnStatus(ev[c]), TRUE)
               ELSE http
    /\ UNCHANGED <<moves, deviceTokens, lastNotificationTime, boot, mu, apnsClient,
                   environment, evals, sched, dispatches, pushLog, reg>>

\* variant: getUserTurnStatus calls sendConsolidatedPushNotification itself
\* (no `go`) and returns when the push has returned
returnedAfterPush(c) ==
    /\ ev[c].pc \in {"idle", "done"}
    /\ \A k \in DOMAIN dispatches : dispatches[k].pc = "done"

\* getUserTurnStatus has returned to its caller; the goroutines it started
\* with `go` run on
returned(c) == ev[c].pc \in {"idle", "done"}

\* ------------------------------------------------------------------ checkUserTurn
\* GET /check/{userID}: 400 when the ID does not parse, else
\* getUserTurnStatus, and 500 when that returns an error
checkUserTurn(upstream) ==
    /\ returned("check")
    /\ \E userIDStr \in CheckIDs :
          IF Atoi(userIDStr).ok
          THEN /\ callGetUserTurnStatus("check", Atoi(userIDStr).val, upstream)
               /\ http' = IF ev'["check"].res = "error"
                          THEN response("check", [userID |-> userIDStr], 500,
                                        errorBody("Failed to fetch turn status"), TRUE)
                          ELSE noResponse
          ELSE /\ ev' = [ev EXCEPT !["check"] = [idleFrame EXCEPT !.pc = "done",
                                                                  !.res = "400"]]
               /\ http' = response("check", [userID |-> userIDStr], 400,
                                   errorBody("Invalid user ID"), FALSE)
               /\ UNCHANGED evals
    /\ UNCHANGED <<moves, deviceTokens, lastNotificationTime, file, boot, mu, apnsClient,
                   environment, sched, dispatches, pushLog, reg, prev>>

\* ------------------------------------------------------------------ checkAllUsers
\* the timer fires (the initial sleep ends, or the ticker sends): the
\* channel holds one tick, a tick that finds it full is dropped
Tick ==
    /\ ~sched.tick
    /\ sched' = [sched EXCEPT !.tick = TRUE]
    /\ UNCHANGED <<moves, deviceTokens, lastNotificationTime, file, boot, mu, apnsClient,
                   environment, ev, evals, dispatches, pushLog, reg, prev, http>>

\* variant: every tick starts a cycle of its own (`go checkAllUsers()`)
mayStartOnTick(s) == s.tick

\* startPeriodicChecking calls checkAllUsers from its own loop: it takes a
\* tick only when the previous call has returned
mayStart(s) == s.state = "idle" /\ s.tick

\* checkAllUsers begins: copy the registered users under the read lock,
\* which is released before the loop (sched.lock is the mode in which the
\* scheduler holds storage.mu between its steps); return at once when there
\* are none
CycleStart ==
    /\ mayStart(sched)
    /\ sched' = IF DOMAIN deviceTokens = {}
                THEN [sched EXCEPT !.tick = FALSE, !.users = {}, !.todo = {},
                                   !.calls = <<>>, !.failed = {}]
                ELSE [sched EXCEPT !.tick = FALSE, !.state = "running",
                                   !.active = @ + 1,
                                   !.users = DOMAIN deviceTokens,
                                   !.todo = DOMAIN deviceTokens,
                                   !.calls = <<>>, !.failed = {},
                                   !.lock = "none"]
    /\ ev' = [ev EXCEPT !["sched"] = idleFrame]
    /\ UNCHANGED <<moves, deviceTokens, lastNotificationTime, file, boot, mu, apnsClient,
                   environment, evals, dispatches, pushLog, reg, prev, http>>

\* variant: an error of getUserTurnStatus ends the cycle
remainingNoneAfterError(todo, userIDStr, err) ==
    IF err THEN {} ELSE todo \ {userIDStr}

\* the users still to visit after userIDStr: `continue` on an error as on
\* success
remaining(todo, userIDStr, err) == todo \ {userIDStr}

\* `for userIDStr := range deviceTokens`: the next user, in any order
CycleUser(upstream) ==
    /\ sched.state = "running"
    /\ returned("sched")
    /\ \E userIDStr \in sched.todo :
          /\ IF Atoi(userIDStr).ok
             THEN callGetUserTurnStatus("sched", Atoi(userIDStr).val, upstream)
             ELSE /\ ev' = [ev EXCEPT !["sched"] = idleFrame]
                  /\ UNCHANGED evals
          /\ LET err == Atoi(userIDStr).ok /\ ev'["sched"].res = "error"
             IN  sched' = [sched EXCEPT
                    !.todo = remaining(@, userIDStr, err),
                    !.calls = IF Atoi(userIDStr).ok THEN Append(@, userIDStr) ELSE @,
                    !.failed = IF err THEN @ \cup {userIDStr} ELSE @]
    /\ UNCHANGED <<moves, deviceTokens, lastNotificationTime, file, boot, mu, apnsClient,
                   environment, dispatches, pushLog, reg, prev, http>>

\* "Turn checking cycle complete"
CycleEnd ==
    /\ sched.state = "running"
    /\ returned("sched")
    /\ sched.todo = {}
    /\ sched' = [sched EXCEPT !.state = "idle", !.active = @ - 1,
                              !.users = {}, !.calls = <<>>, !.failed = {}]
    /\ UNCHANGED <<moves, deviceTokens, lastNotificationTime, file, boot, mu, apnsClient,
                   environment, ev, evals, dispatches, pushLog, reg, prev, http>>

\* ------------------------------------------------------------------ registerDevice
\* what a request body decodes to: json is FALSE when Decode fails, a
\* field absent from the body is the empty string
registration(json, userID, deviceToken) ==
    [json |-> json, user_id |-> userID, device_token |-> deviceToken]

\* the bodies of POST /register that pass validation
RegRequests == {registration(TRUE, u, t) : u \in RegIDs, t \in Tokens}

\* variant: a user who has a token keeps it
storedKeepFirst(dt, userID, deviceToken) ==
    IF userID \in DOMAIN dt THEN dt ELSE Put(dt, userID, deviceToken)

\* variant: a device belongs to one user, a registration takes the address
\* away from the users who had it
storedReplacing(dt, userID, deviceToken) ==
    [u \in {x \in DOMAIN dt : dt[x] # deviceToken} \cup {userID} |->
        IF u = userID THEN deviceToken ELSE dt[u]]

\* variant: the write lands in every entry of the table
storedShared(dt, userID, deviceToken) ==
    [u \in DOMAIN dt \cup {userID} |-> deviceToken]

\* storage.deviceTokens[registration.UserID] = registration.DeviceToken
stored(dt, userID, deviceToken) == Put(dt, userID, deviceToken)

\* POST /register: 400 when the body does not decode or a field is empty,
\* else store the token under the lock
Register(requests) ==
    /\ reg.pc = "idle"
    /\ \E r \in requests :
          IF ~r.json
          THEN /\ http' = response("register", r, 400, errorBody("Invalid JSON"), FALSE)
               /\ UNCHANGED <<deviceTokens, reg>>
          ELSE IF r.user_id = "" \/ r.device_token = ""
          THEN /\ http' = response("register", r, 400,
                          errorBody("user_id and device_token are required"), FALSE)
               /\ UNCHANGED <<deviceTokens, reg>>
          ELSE /\ deviceTokens' = stored(deviceTokens, r.user_id, r.device_token)
               /\ reg' = [pc |-> "save", req |-> r]
               /\ http' = noResponse
    /\ UNCHANGED <<moves, lastNotificationTime, file, boot, mu, apnsClient,
                   environment, ev, evals, sched, dispatches, pushLog, prev>>

\* variant: a registration forgets when its user was last notified
RegisterSaveResetsTime ==
    /\ reg.pc = "save"
    /\ lastNotificationTime' =
           [u \in (DOMAIN lastNotificationTime) \ {reg.req.user_id} |->
               lastNotificationTime[u]]
    /\ file' = saveStorage(moves, deviceTokens, lastNotificationTime', boot.nil)
    /\ reg' = [pc |-> "idle"]
    /\ http' = response("register", reg.req, 200, [status |-> "registered"], FALSE)
    /\ UNCHANGED <<moves, deviceTokens, boot, mu, apnsClient,
                   environment, ev, evals, sched, dispatches, pushLog, prev>>

\* saveStorage() of registerDevice, then the response
RegisterSave ==
    /\ reg.pc = "save"
    /\ file' = saveStorage(moves, deviceTokens, lastNotificationTime, boot.nil)
    /\ reg' = [pc |-> "idle"]
    /\ http' = response("register", reg.req, 200, [status |-> "registered"], FALSE)
    /\ UNCHANGED <<moves, deviceTokens, lastNotificationTime, boot, mu, apnsClient,
                   environment, ev, evals, sched, dispatches, pushLog, prev>>

\* ------------------------------------------------------------------ read-only handlers
\* GET /health
healthCheck ==
    /\ http' = response("health", [none |-> TRUE], 200, [status |-> "ok"], FALSE)
    /\ UNCHANGED <<moves, deviceTokens, lastNotificationTime, file, boot, mu, apnsClient,
                   environment, ev, evals, sched, dispatches, pushLog, reg, prev>>

\* variant: every registered user is returned
matchingUserIDsAll(dt, deviceToken) == DOMAIN dt

\* the users whose stored token is the requested one, collected in one
\* read-locked pass over the table
matchingUserIDs(dt, deviceToken) == {userID \in DOMAIN dt : dt[userID] = deviceToken}

\* the DeviceTokenUsers value the handler encodes
deviceTokenUsers(dt, deviceToken) ==
    [device_token |-> deviceToken, user_ids |-> matchingUserIDs(dt, deviceToken)]

\* GET /users-by-token/{deviceToken}
getUsersByDeviceToken(tokens) ==
    /\ \E deviceToken \in tokens :
          http' = IF deviceToken = ""
                  THEN response("users-by-token", [deviceToken |-> deviceToken], 400,
                                errorBody("Device token is required"), FALSE)
                  ELSE response("users-by-token", [deviceToken |-> deviceToken], 200,
                                deviceTokenUsers(deviceTokens, deviceToken), FALSE)
    /\ UNCHANGED <<moves, deviceTokens, lastNotificationTime, file, boot, mu, apnsClient,
                   environment, ev, evals, sched, dispatches, pushLog, reg, prev>>

\* the GameDiagnostic entries of a snapshot
monitoredGames(userID, games) ==
    [j \in DOMAIN games |->
        [game_id |-> games[j].id,
         last_move_timestamp |-> games[j].ts,
         current_player |-> games[j].cp,
         is_your_turn |-> games[j].cp = userID,
         game_name |-> games[j].name]]

\* the UserDiagnostics value the handler encodes
userDiagnostics(userIDStr, userID, dt, lnt, games, now) ==
    [user_id |-> userIDStr,
     device_token_registered |-> userIDStr \in DOMAIN dt,
     device_token_preview |-> IF userIDStr \in DOMAIN dt THEN "[REGISTERED]" ELSE "",
     last_notification_time |-> IF userIDStr \in DOMAIN lnt THEN lnt[userIDStr] ELSE 0,
     monitored_games |-> monitoredGames(userID, games),
     total_active_games |-> Len(games),
     server_check_interval |-> "30s",
     last_server_check_time |-> now]

\* variant: the handler gets its games from getUserTurnStatus' loop, which
\* records the game it finds newly turned
getUserDiagnosticsMarking(ids, upstream) ==
    /\ \E userIDStr \in ids :
          IF ~Atoi(userIDStr).ok
          THEN /\ http' = response("diagnostics", [userID |-> userIDStr], 400,
                                   errorBody("Invalid user ID"), FALSE)
               /\ moves' = moves
          ELSE \/ /\ http' = response("diagnostics", [userID |-> userIDStr], 503,
                                      errorBody("Failed to fetch user games"), TRUE)
                  /\ moves' = moves
               \/ \E games \in upstream, now \in Times :
                     /\ http' = response("diagnostics", [userID |-> userIDStr], 200,
                                    userDiagnostics(userIDStr, Atoi(userIDStr).val,
                                        deviceTokens, lastNotificationTime, games, now),
                                    TRUE)
                     /\ moves' = IF games # <<>> /\ games[1].cp = Atoi(userIDStr).val
                                    /\ isNewTurn(moves, userIDStr, games[1].id, games[1].ts)
                                 THEN updateStoredMove(moves, userIDStr,
                                                       games[1].id, games[1].ts)
                                 ELSE moves
    /\ UNCHANGED <<deviceTokens, lastNotificationTime, file, boot, mu, apnsClient,
                   environment, ev, evals, sched, dispatches, pushLog, reg, prev>>

\* GET /diagnostics/{userID}: 400 when the ID does not parse, 503 when
\* getActiveGames fails, else the diagnostics of the fetched snapshot
getUserDiagnostics(ids, upstream) ==
    /\ \E userIDStr \in ids :
          IF ~Atoi(userIDStr).ok
          THEN http' = response("diagnostics", [userID |-> userIDStr], 400,
                                errorBody("Invalid user ID"), FALSE)
          ELSE \/ http' = response("diagnostics", [userID |-> userIDStr], 503,
                                   errorBody("Failed to fetch user games"), TRUE)
               \/ \E games \in upstream, now \in Times :
                     http' = response("diagnostics", [userID |-> userIDStr], 200,
                                 userDiagnostics(userIDStr, Atoi(userIDStr).val,
                                     deviceTokens, lastNotificationTime, games, now),
                                 TRUE)
    /\ UNCHANGED <<moves, deviceTokens, lastNotificationTime, file, boot, mu, apnsClient,
                   environment, ev, evals, sched, dispatches, pushLog, reg, prev>>

\* variant: a missing device token does not stop the goroutine
lookedUpNoDeviceCheck(d, client, dt) ==
    IF ~client THEN [d EXCEPT !.pc = "done", !.outcome = "skip_no_client"]
    ELSE IF Len(d.games) = 0
         THEN [d EXCEPT !.pc = "done", !.outcome = "skip_no_games"]
    ELSE [d EXCEPT !.pc = "push",
                   !.token = IF d.user \in DOMAIN dt THEN dt[d.user] ELSE ""]

\* variant: `defer storage.mu.RUnlock()`, the read lock is held until the
\* goroutine returns
lookedUpDeferredUnlock(d, client, dt) ==
    IF ~client THEN [d EXCEPT !.pc = "done", !.outcome = "skip_no_client"]
    ELSE IF d.user \notin DOMAIN dt
         THEN [d EXCEPT !.pc = "done", !.outcome = "skip_no_device", !.lock = "none"]
    ELSE IF Len(d.games) = 0
         THEN [d EXCEPT !.pc = "done", !.outcome = "skip_no_games", !.lock = "none"]
    ELSE [d EXCEPT !.pc = "push", !.token = dt[d.user], !.lock = "r"]

\* ------------------------------------------------------------------ sendConsolidatedPushNotification
\* the guards before the payload is built: client, device token, empty list
lookedUp(d, client, dt) ==
    IF ~client THEN [d EXCEPT !.pc = "done", !.outcome = "skip_no_client"]
    ELSE IF d.user \notin DOMAIN dt
         THEN [d EXCEPT !.pc = "done", !.outcome = "skip_no_device", !.lock = "none"]
    ELSE IF Len(d.games) = 0
         THEN [d EXCEPT !.pc = "done", !.outcome = "skip_no_games", !.lock = "none"]
    ELSE [d EXCEPT !.pc = "push", !.token = dt[d.user], !.lock = "none"]

DispatchStart(k) ==
    /\ dispatches[k].pc = "start"
    /\ dispatches' = [dispatches EXCEPT ![k] = lookedUp(@, apnsClient, deviceTokens)]
    /\ UNCHANGED <<moves, deviceTokens, lastNotificationTime, file, boot, mu, apnsClient,
                   environment, ev, evals, sched, pushLog, reg, prev, http>>

\* the calls of apnsClient.Push made by goroutine k for its games
pushCalls(k, d, env) ==
    <<[by |-> k, user |-> d.user,
       notification |-> pushNotification(env, d.token, d.games)]>>

\* variant: the notification time is recorded whatever Push answered
pushedAlwaysRecorded(d, result) ==
    [d EXCEPT !.pc = "record", !.outcome = result]

\* the goroutine after Push: `if err != nil { return }`, then
\* `if res.Sent() { record } else { log }`
pushed(d, result) ==
    [d EXCEPT !.pc = IF result = "sent" THEN "record" ELSE "done",
              !.outcome = result]

\* apnsClient.Push: an error, a rejection or a sent notification
DispatchPush(k) ==
    /\ dispatches[k].pc = "push"
    /\ pushLog' = pushLog \o pushCalls(k, dispatches[k], environment)
    /\ \E result \in {"error", "rejected", "sent"} :
          dispatches' = [dispatches EXCEPT ![k] = pushed(@, result)]
    /\ UNCHANGED <<moves, deviceTokens, lastNotificationTime, file, boot, mu, apnsClient,
                   environment, ev, evals, sched, reg, prev, http>>

\* res.Sent(): lastNotificationTime[userID] = time.Now().Unix() under the lock
DispatchRecord(k) ==
    /\ dispatches[k].pc = "record"
    /\ \E now \in Times :
          lastNotificationTime' = Put(lastNotificationTime, dispatches[k].user, now)
    /\ dispatches' = [dispatches EXCEPT ![k].pc = "save"]
    /\ UNCHANGED <<moves, deviceTokens, file, boot, mu, apnsClient,
                   environment, ev, evals, sched, pushLog, reg, prev, http>>

\* variant: the goroutine returns after the write of the notification time
DispatchSaveSkipped(k) ==
    /\ dispatches[k].pc = "save"
    /\ dispatches' = [dispatches EXCEPT ![k].pc = "done"]
    /\ UNCHANGED <<moves, deviceTokens, lastNotificationTime, file, boot, mu, apnsClient,
                   environment, ev, evals, sched, pushLog, reg, prev, http>>

\* saveStorage() after the notification time was recorded
DispatchSave(k) ==
    /\ dispatches[k].pc = "save"
    /\ file' = saveStorage(moves, deviceTokens, lastNotificationTime, boot.nil)
    /\ dispatches' = [dispatches EXCEPT ![k].pc = "done"]
    /\ UNCHANGED <<moves, deviceTokens, lastNotificationTime, boot, mu, apnsClient,
                   environment, ev, evals, sched, pushLog, reg, prev, http>>

\* ------------------------------------------------------------------ specifications
\* A fresh start; requests, timer ticks and goroutines interleave freely.
Next ==
    \/ checkUserTurn(Snapshots(RaceGames))
    \/ Tick
    \/ CycleStart
    \/ CycleUser(Snapshots(RaceGames))
    \/ CycleEnd
    \/ \E c \in Callers : Classify(c)
    \/ \E c \in Callers : Commit(c)
    \/ \E c \in Callers : Spawn(c)
    \/ \E c \in Callers : Save(c)
    \/ Register(RegRequests)
    \/ RegisterSave
    \/ \E k \in DOMAIN dispatches : DispatchStart(k)
    \/ \E k \in DOMAIN dispatches : DispatchPush(k)
    \/ \E k \in DOMAIN dispatches : DispatchRecord(k)
    \/ \E k \in DOMAIN dispatches : DispatchSave(k)

Spec == Init /\ [][Next]_vars

\* The tables user "1" can have: no entry, or a marker for some of the games
Tables ==
    {EmptyMap} \cup
    {Put(EmptyMap, "1", m) : m \in UNION {[G -> Ts] : G \in (SUBSET GameIDs) \ {{}}}}

\* The documents a previous run can have left in moves.json
Persisted ==
    {saveStorage(mv, dt, EmptyMap, {}) :
        mv \in Tables,
        dt \in {EmptyMap} \cup {Put(EmptyMap, "1", t) : t \in Tokens}}

\* A restart: loadStorage reads the document of the previous run.
InitSeq ==
    /\ \E doc \in Persisted :
          LET st == loadStorage(doc, newStorage)
          IN  /\ file = doc
              /\ moves = st.moves
              /\ deviceTokens = st.deviceTokens
              /\ lastNotificationTime = st.lastNotificationTime
              /\ boot = [pc |-> "loaded", nil |-> st.nil]
              /\ mu = unlocked
    /\ apnsClient \in BOOLEAN
    /\ environment = ""
    /\ ev = [c \in Callers |-> idleFrame]
    /\ evals = 0
    /\ sched = idleSched
    /\ dispatches = <<>>
    /\ pushLog = <<>>
    /\ reg = [pc |-> "idle"]
    /\ prev = noPrev
    /\ http = noResponse

\* No request is being served.
Served == \A c \in Callers : returned(c)

\* No request is being served and every dispatch goroutine has ended.
Quiet == Served /\ \A k \in DOMAIN dispatches : dispatches[k].pc = "done"

\* What the upstream answers while no game changes: anything on the first
\* fetch, the same snapshot afterwards.
Unchanged == IF prev.uid = 0 THEN Snapshots(MaxGames) ELSE {prev.games}

\* Manual checks served one at a time over an upstream that does not change:
\* a request starts when the previous one and its dispatch goroutine have
\* ended, and the goroutine runs once its request has returned.
NextSeq ==
    \/ Quiet /\ checkUserTurn(Unchanged)
    \/ \E c \in Callers : Classify(c)
    \/ \E c \in Callers : Commit(c)
    \/ \E c \in Callers : Spawn(c)
    \/ \E c \in Callers : Save(c)
    \/ Served /\ \E k \in DOMAIN dispatches : DispatchStart(k)
    \/ \E k \in DOMAIN dispatches : DispatchPush(k)
    \/ \E k \in DOMAIN dispatches : DispatchRecord(k)
    \/ \E k \in DOMAIN dispatches : DispatchSave(k)

SpecSeq == InitSeq /\ [][NextSeq]_vars

\* the frame and the table when the loop of getUserTurnStatus has run to its
\* end from frame f and table mv with no other goroutine in between
RECURSIVE looped(_, _)
looped(f, mv) ==
    IF f.pc = "commit"
    THEN looped([f EXCEPT !.pc = "loop", !.i = @ + 1], committed(f, mv))
    ELSE IF f.i <= Len(f.games) THEN looped(classified(f, mv), mv)
    ELSE [frame |-> f, moves |-> mv]

\* A fresh start on which one GET /check/1 has found new turns, started its
\* dispatch goroutine, saved and returned; the goroutine has yet to run.
InitPush ==
    /\ \E games \in Snapshots(MaxGames) :
          LET end == looped(startFrame(1, games), EmptyMap)
          IN  /\ end.frame.ntg # <<>>
              /\ moves = end.moves
              /\ dispatches = spawned(<<>>, end.frame)
              /\ prev = summary(end.frame, end.moves)
              /\ http = response("check", [userID |-> "1"], 200,
                                 turnStatus(end.frame), TRUE)
    /\ deviceTokens \in {EmptyMap} \cup {Put(EmptyMap, "1", t) : t \in Tokens}
    /\ lastNotificationTime = EmptyMap
    /\ boot = [pc |-> "loaded", nil |-> {}]
    /\ mu = unlocked
    /\ file = saveStorage(moves, deviceTokens, lastNotificationTime, boot.nil)
    /\ apnsClient \in BOOLEAN
    /\ environment \in Environments
    /\ ev = [c \in Callers |-> IF c = "check"
                               THEN [idleFrame EXCEPT !.pc = "done", !.res = "ok"]
                               ELSE idleFrame]
    /\ evals = 1
    /\ sched = idleSched
    /\ pushLog = <<>>
    /\ reg = [pc |-> "idle"]

\* The dispatch goroutine alone.
NextPush ==
    \/ \E k \in DOMAIN dispatches : DispatchStart(k)
    \/ \E k \in DOMAIN dispatches : DispatchPush(k)
    \/ \E k \in DOMAIN dispatches : DispatchRecord(k)
    \/ \E k \in DOMAIN dispatches : DispatchSave(k)

SpecPush == InitPush /\ [][NextPush]_vars

\* user_id values a previous run accepted at POST /register
SchedIDs == {"1", "2", "x"}

\* The user_id strings of the registrations a previous run accepted: any
\* non-empty string, a numeric string in non-canonical form included
RegisteredIDs == SchedIDs \cup {"01"}

\* The registrations a previous run can have left in moves.json
Registered ==
    UNION {[U -> Tokens] : U \in SUBSET RegisteredIDs}

\* What the upstream answers to the scheduler: no active game, or game 7
\* last moved at time 1 with any current player
SchedSnapshots ==
    {<<>>} \cup {<<g>> : g \in {e \in GameEntries : e.id = 7 /\ e.ts = 1}}

\* A restart with users registered and no markers; only the timer acts.
InitSched ==
    /\ moves = EmptyMap
    /\ deviceTokens \in Registered
    /\ lastNotificationTime = EmptyMap
    /\ boot = [pc |-> "loaded", nil |-> {}]
    /\ mu = unlocked
    /\ file = saveStorage(moves, deviceTokens, lastNotificationTime, boot.nil)
    /\ apnsClient \in BOOLEAN
    /\ environment = ""
    /\ ev = [c \in Callers |-> idleFrame]
    /\ evals = 0
    /\ sched = idleSched
    /\ dispatches = <<>>
    /\ pushLog = <<>>
    /\ reg = [pc |-> "idle"]
    /\ prev = noPrev
    /\ http = noResponse

\* The scheduler goroutine and the dispatch goroutines it starts.
NextSched ==
    \/ Tick
    \/ CycleStart
    \/ CycleUser(SchedSnapshots)
    \/ CycleEnd
    \/ Classify("sched")
    \/ Commit("sched")
    \/ Spawn("sched")
    \/ Save("sched")
    \/ \E k \in DOMAIN dispatches : DispatchStart(k)
    \/ \E k \in DOMAIN dispatches : DispatchPush(k)
    \/ \E k \in DOMAIN dispatches : DispatchRecord(k)
    \/ \E k \in DOMAIN dispatches : DispatchSave(k)

SpecSched == InitSched /\ [][NextSched]_vars

\* ------------------------------------------------------------------ lock calls
\* the calls on storage.mu of each function, in program order
isNewTurnLocks == <<"RLock", "RUnlock">>
updateStoredMoveLocks == <<"Lock", "Unlock">>
saveStorageLocks == <<"RLock", "RUnlock">>

\* getUserTurnStatus for a snapshot with a newly turned game
getUserTurnStatusLocks ==
    isNewTurnLocks \o updateStoredMoveLocks \o saveStorageLocks

\* checkAllUsers: the copy of the device tokens, then getUserTurnStatus
checkAllUsersLocks == <<"RLock", "RUnlock">> \o getUserTurnStatusLocks

\* variant: saveStorage() is called before the Unlock
registerDeviceSaveInside == <<"Lock">> \o saveStorageLocks \o <<"Unlock">>

\* registerDevice: the store, then saveStorage()
registerDeviceLocks == <<"Lock", "Unlock">> \o saveStorageLocks

\* sendConsolidatedPushNotification when the push was sent: the lookup, the
\* notification time, saveStorage()
sendConsolidatedPushNotificationLocks ==
    <<"RLock", "RUnlock", "Lock", "Unlock">> \o saveStorageLocks

\* getUserDiagnostics and getUsersByDeviceToken: one read of the tables
readLocks == <<"RLock", "RUnlock">>

lockCalls(g) ==
    CASE g = "sched"       -> checkAllUsersLocks
      [] g = "check"       -> getUserTurnStatusLocks
      [] g = "register"    -> registerDeviceLocks
      [] g = "dispatch"    -> sendConsolidatedPushNotificationLocks
      [] OTHER             -> readLocks

\* the call goroutine g makes next, None when its function has returned
nextCall(g) ==
    IF mu.at[g] \in DOMAIN lockCalls(g) THEN lockCalls(g)[mu.at[g]] ELSE None

\* g is blocked in Lock() or RLock()
Blocked(g) == g \in mu.wq \cup mu.rq \/ (mu.m = g /\ mu.w # g)

\* g holds the lock, for writing or for reading
Holding(g) == mu.w = g \/ g \in mu.r

\* Lock(): the goroutine queues for the writers' mutex
LockCall(g) ==
    /\ nextCall(g) = "Lock" /\ ~Blocked(g)
    /\ mu' = [mu EXCEPT !.wq = @ \cup {g}]
    /\ UNCHANGED <<moves, deviceTokens, lastNotificationTime, file, boot, apnsClient,
                   environment, ev, evals, sched, dispatches, pushLog, reg, prev, http>>

\* Lock(): g has the writers' mutex and announces itself; from now on
\* RLock() blocks
LockAnnounce(g) ==
    /\ g \in mu.wq /\ mu.m = None
    /\ mu' = [mu EXCEPT !.m = g, !.wq = @ \ {g}]
    /\ UNCHANGED <<moves, deviceTokens, lastNotificationTime, file, boot, apnsClient,
                   environment, ev, evals, sched, dispatches, pushLog, reg, prev, http>>

\* Lock() returns when the readers have left
LockReturn(g) ==
    /\ mu.m = g /\ mu.w = None /\ mu.r = {}
    /\ mu' = [mu EXCEPT !.w = g, !.at[g] = @ + 1]
    /\ UNCHANGED <<moves, deviceTokens, lastNotificationTime, file, boot, apnsClient,
                   environment, ev, evals, sched, dispatches, pushLog, reg, prev, http>>

\* Unlock(): the blocked readers are let in, then the next writer may
\* announce itself
Unlock(g) ==
    /\ nextCall(g) = "Unlock" /\ mu.w = g
    /\ mu' = [mu EXCEPT !.w = None, !.m = None, !.r = @ \cup mu.rq, !.rq = {},
                        !.at = [x \in Goroutines |->
                                   IF x = g \/ x \in mu.rq THEN @[x] + 1 ELSE @[x]]]
    /\ UNCHANGED <<moves, deviceTokens, lastNotificationTime, file, boot, apnsClient,
                   environment, ev, evals, sched, dispatches, pushLog, reg, prev, http>>

\* RLock(): returns at once unless a writer has announced itself
RLock(g) ==
    /\ nextCall(g) = "RLock" /\ ~Blocked(g)
    /\ mu' = IF mu.m = None
             THEN [mu EXCEPT !.r = @ \cup {g}, !.at[g] = @ + 1]
             ELSE [mu EXCEPT !.rq = @ \cup {g}]
    /\ UNCHANGED <<moves, deviceTokens, lastNotificationTime, file, boot, apnsClient,
                   environment, ev, evals, sched, dispatches, pushLog, reg, prev, http>>

RUnlock(g) ==
    /\ nextCall(g) = "RUnlock" /\ g \in mu.r
    /\ mu' = [mu EXCEPT !.r = @ \ {g}, !.at[g] = @ + 1]
    /\ UNCHANGED <<moves, deviceTokens, lastNotificationTime, file, boot, apnsClient,
                   environment, ev, evals, sched, dispatches, pushLog, reg, prev, http>>

\* the function has returned; the next tick, request or dispatch runs it again
Again(g) ==
    /\ nextCall(g) = None
    /\ mu' = [mu EXCEPT !.at[g] = 1]
    /\ UNCHANGED <<moves, deviceTokens, lastNotificationTime, file, boot, apnsClient,
                   environment, ev, evals, sched, dispatches, pushLog, reg, prev, http>>

NextLock ==
    \/ \E g \in Goroutines : LockCall(g)
    \/ \E g \in Goroutines : LockAnnounce(g)
    \/ \E g \in Goroutines : LockReturn(g)
    \/ \E g \in Goroutines : Unlock(g)
    \/ \E g \in Goroutines : RLock(g)
    \/ \E g \in Goroutines : RUnlock(g)
    \/ \E g \in Goroutines : Again(g)

\* A goroutine that can take its next step takes it: nothing but storage.mu
\* makes one wait inside these functions.  The writers' mutex hands itself
\* to a goroutine that keeps waiting (sync.Mutex starvation mode), so a
\* writer that is again and again able to announce itself does.  New ticks
\* and requests need not come.
LockFairness ==
    \A g \in Goroutines :
        /\ WF_vars(LockCall(g))
        /\ SF_vars(LockAnnounce(g))
        /\ WF_vars(LockReturn(g))
        /\ WF_vars(Unlock(g))
        /\ WF_vars(RLock(g))
        /\ WF_vars(RUnlock(g))

\* A fresh start with the push client set.
InitLock == Init /\ apnsClient

SpecLock == InitLock /\ [][NextLock]_vars /\ LockFairness

\* ------------------------------------------------------------------ progress
\* A cycle is started only while the evaluations it needs fit the bound.
Budget ==
    evals + Cardinality({u \in DOMAIN deviceTokens : Atoi(u).ok}) <= MaxEvals

NextCycle ==
    \/ Tick
    \/ Budget /\ CycleStart
    \/ CycleUser(SchedSnapshots)
    \/ CycleEnd
    \/ Classify("sched")
    \/ Commit("sched")
    \/ Spawn("sched")
    \/ Save("sched")
    \/ \E k \in DOMAIN dispatches : DispatchStart(k)
    \/ \E k \in DOMAIN dispatches : DispatchPush(k)
    \/ \E k \in DOMAIN dispatches : DispatchRecord(k)
    \/ \E k \in DOMAIN dispatches : DispatchSave(k)

\* The scheduler goroutine is always runnable inside checkAllUsers: its
\* fetches return or time out (http.Client Timeout), its lock sections end,
\* and it waits for no other goroutine.  Nothing is assumed of the dispatch
\* goroutines: client.Push may never return.
CycleFairness ==
    /\ WF_vars(CycleUser(SchedSnapshots))
    /\ WF_vars(Classify("sched"))
    /\ WF_vars(Commit("sched"))
    /\ WF_vars(Spawn("sched"))
    /\ WF_vars(Save("sched"))
    /\ WF_vars(CycleEnd)

SpecCycle == InitSched /\ [][NextCycle]_vars /\ CycleFairness

\* inputs of the HTTP handlers when they are studied on their own
HttpIDs == {"1", "2"}
HttpTokens == {"tokA", "tokB"}

\* request bodies of POST /register: valid ones, one that does not decode,
\* and ones with a field missing
HttpRequests ==
    {registration(TRUE, u, t) : u \in HttpIDs \cup {""}, t \in HttpTokens \cup {""}}
        \cup {registration(FALSE, "", "")}

\* No request is being served and no goroutine is running.
Idle == Quiet /\ reg.pc = "idle"

\* A fresh start; the five endpoints, one request at a time. main puts
\* the handlers on the router as they are and none of them reads a header of
\* its request; a request stands for the same request with any headers,
\* X-API-Key absent or present.
NextHttp ==
    \/ Idle /\ Register(HttpRequests)
    \/ RegisterSave
    \/ Idle /\ healthCheck
    \/ Idle /\ getUsersByDeviceToken(HttpTokens \cup {""})
    \/ Idle /\ getUserDiagnostics(SchedIDs, SchedSnapshots)
    \/ Idle /\ checkUserTurn(SchedSnapshots)
    \/ Classify("check")
    \/ Commit("check")
    \/ Spawn("check")
    \/ Save("check")
    \/ Served /\ \E k \in DOMAIN dispatches : DispatchStart(k)
    \/ \E k \in DOMAIN dispatches : DispatchPush(k)
    \/ \E k \in DOMAIN dispatches : DispatchRecord(k)
    \/ \E k \in DOMAIN dispatches : DispatchSave(k)

SpecHttp == Init /\ [][NextHttp]_vars

\* ------------------------------------------------------------------ concurrent requests
\* A fresh start; registrations, manual checks and the dispatch goroutines
\* of the checks, in any interleaving of their lock sections.
NextConc ==
    \/ Register(HttpRequests)
    \/ RegisterSave
    \/ checkUserTurn(SchedSnapshots)
    \/ Classify("check")
    \/ Commit("check")
    \/ Spawn("check")
    \/ Save("check")
    \/ \E k \in DOMAIN dispatches : DispatchStart(k)
    \/ \E k \in DOMAIN dispatches : DispatchPush(k)
    \/ \E k \in DOMAIN dispatches : DispatchRecord(k)
    \/ \E k \in DOMAIN dispatches : DispatchSave(k)

SpecConc == Init /\ [][NextConc]_vars

\* values of CHECK_INTERVAL_SECONDS: not set, a number, not a number
IntervalSettings == {"", "2", "x", "0", "-1"}

\* A fresh start with the scheduler configured from the environment.
InitDiag ==
    /\ moves = EmptyMap
    /\ deviceTokens = EmptyMap
    /\ lastNotificationTime = EmptyMap
    /\ file = noFile
    /\ boot = [pc |-> "loaded", nil |-> {}]
    /\ mu = unlocked
    /\ apnsClient \in BOOLEAN
    /\ environment = ""
    /\ ev = [c \in Callers |-> idleFrame]
    /\ evals = 0
    /\ sched \in {startPeriodicChecking(s) : s \in IntervalSettings}
    /\ dispatches = <<>>
    /\ pushLog = <<>>
    /\ reg = [pc |-> "idle"]
    /\ prev = noPrev
    /\ http = noResponse

\* the process serves requests unless the scheduler goroutine panicked
serving == sched.state # "panicked"

\* Registrations and diagnostics requests, one at a time.
NextDiag ==
    \/ serving /\ Idle /\ Register(HttpRequests)
    \/ serving /\ RegisterSave
    \/ serving /\ Idle /\ getUserDiagnostics(SchedIDs, SchedSnapshots)

SpecDiag == InitDiag /\ [][NextDiag]_vars

\* The texts moves.json can hold when the process starts: none, a text that
\* is not JSON, null, an array, a file of the old format (the markers alone),
\* an old-format file with a damaged game key, and the objects made of any
\* of the three fields of the current format, each with a well-formed
\* value, a null or (device_tokens) a value of the wrong type
FieldNames == {"moves", "device_tokens", "last_notification_time"}

FieldValues(name) ==
    IF name = "moves"
    THEN {JNull} \cup {encodeMoves(mv, FALSE) : mv \in Tables}
    ELSE IF name = "device_tokens"
    THEN {JNull, JNum(0), JObj(EmptyMap)}
             \cup {JObj(Put(EmptyMap, "1", JStr(t))) : t \in Tokens}
    ELSE {JNull, JObj(EmptyMap)}
             \cup {JObj(Put(EmptyMap, "1", JNum(t))) : t \in Times}

OldFormatFiles == {encodeMoves(mv, FALSE) : mv \in Tables}

DamagedFiles == {JObj(Put(EmptyMap, "1", JObj(Put(EmptyMap, "x", JNum(0)))))}

StateFiles ==
    {JObj(f) : f \in UNION {
        {g \in [D -> UNION {FieldValues(n) : n \in FieldNames}] :
            \A n \in D : g[n] \in FieldValues(n)} : D \in SUBSET FieldNames}}

Contents ==
    {noFile, notJSON, JNull, JArr} \cup OldFormatFiles \cup DamagedFiles
        \cup StateFiles

\* The process before main has run: the maps of var storage, any file
InitLoad ==
    /\ moves = newStorage.moves
    /\ deviceTokens = newStorage.deviceTokens
    /\ lastNotificationTime = newStorage.lastNotificationTime
    /\ boot = [pc |-> "start", nil |-> newStorage.nil]
    /\ mu = unlocked
    /\ file \in Contents
    /\ apnsClient = FALSE
    /\ environment = ""
    /\ ev = [c \in Callers |-> idleFrame]
    /\ evals = 0
    /\ sched = idleSched
    /\ dispatches = <<>>
    /\ pushLog = <<>>
    /\ reg = [pc |-> "idle"]
    /\ prev = noPrev
    /\ http = noResponse

\* main starts, or starts again after the process has ended: var storage
\* is made and loadStorage() reads the file
Startup ==
    /\ boot.pc \in {"start", "saved"}
    /\ LET st == loadStorage(file, newStorage)
       IN  /\ moves' = st.moves
           /\ deviceTokens' = st.deviceTokens
           /\ lastNotificationTime' = st.lastNotificationTime
           /\ boot' = [pc  |-> IF boot.pc = "start" THEN "loaded" ELSE "reloaded",
                       nil |-> st.nil]
    /\ UNCHANGED <<file, mu, apnsClient, environment, ev, evals, sched, dispatches,
                   pushLog, reg, prev, http>>

\* a call of saveStorage() by the running process
PersistStorage ==
    /\ boot.pc \in {"loaded", "reloaded"}
    /\ file' = saveStorage(moves, deviceTokens, lastNotificationTime, boot.nil)
    /\ boot' = [boot EXCEPT !.pc = "saved"]
    /\ UNCHANGED <<moves, deviceTokens, lastNotificationTime, mu, apnsClient,
                   environment, ev, evals, sched, dispatches, pushLog, reg,
                   prev, http>>

\* Starting, saving and starting again, with nothing else in between.
NextLoad ==
    \/ Startup
    \/ PersistStorage

SpecLoad == InitLoad /\ [][NextLoad]_vars

\* ------------------------------------------------------------------ claims
UserKeys == {Itoa(u) : u \in UserInts}

hasMarker(mv, userID, gameID) == userID \in DOMAIN mv /\ gameID \in DOMAIN mv[userID]

\* the step is caller c's updateStoredMove
CommitStep(c) == ev[c].pc = "commit" /\ ev'[c].pc = "loop"

\* the step is caller c's classification of a game of its snapshot
ClassifyStep(c) == ev[c].pc = "loop" /\ ev'[c].pc \in {"loop", "commit"} /\ ev'[c] # ev[c]

\* the places where the move (user, game, ts) was handed to a dispatch
\* goroutine as newly turned: goroutine k, position j of its list
Reports(userID, gameID, ts) ==
    {<<k, j>> \in (DOMAIN dispatches) \X (1..MaxGames) :
        /\ dispatches[k].user = userID
        /\ j \in DOMAIN dispatches[k].games
        /\ dispatches[k].games[j].id = gameID
        /\ dispatches[k].games[j].ts = ts}

\* the places where the move was part of a push handed to the transport
Pushed(userID, gameID, ts) ==
    {<<n, j>> \in (DOMAIN pushLog) \X (1..MaxGames) :
        <<pushLog[n].by, j>> \in Reports(userID, gameID, ts)}

\* C1: across every interleaving of scheduled cycles and manual checks, a
\* move (user, game, move timestamp) is reported as newly turned at most
\* once and is part of at most one dispatched push.
C1_AtMostOnce ==
    \A userID \in UserKeys, gameID \in GameIDs, ts \in Ts :
        /\ Cardinality(Reports(userID, gameID, ts)) <= 1
        /\ Cardinality(Pushed(userID, gameID, ts)) <= 1

\* C2: the marker of a (user, game) pair never decreases; every overwrite by
\* updateStoredMove writes a value strictly greater than the one stored just
\* before, and the table changes in no other step.
C2_MarkerMonotone ==
    [][ /\ \A userID \in UserKeys, gameID \in GameIDs :
              hasMarker(moves, userID, gameID)
                  => /\ hasMarker(moves', userID, gameID)
                     /\ moves'[userID][gameID] >= moves[userID][gameID]
        /\ \A c \in Callers :
              (CommitStep(c) /\ hasMarker(moves, Itoa(ev[c].uid), ev[c].games[ev[c].i].id))
                  => ev[c].games[ev[c].i].ts
                         > moves[Itoa(ev[c].uid)][ev[c].games[ev[c].i].id]
        /\ (moves' # moves => \E c \in Callers : CommitStep(c))
      ]_vars

\* the game caller c is looking at, its user key and the ids of a game list
current(c) == ev[c].games[ev[c].i]
key(c) == Itoa(ev[c].uid)
ids(games) == [j \in DOMAIN games |-> games[j].id]

\* the step appends the current game of caller c to exactly one status list
FoundNew(c) ==
    /\ ev'[c].new = Append(ev[c].new, current(c).id)
    /\ ev'[c].old = ev[c].old /\ ev'[c].nyt = ev[c].nyt
FoundOld(c) ==
    /\ ev'[c].old = Append(ev[c].old, current(c).id)
    /\ ev'[c].new = ev[c].new /\ ev'[c].nyt = ev[c].nyt
FoundNotYourTurn(c) ==
    /\ ev'[c].nyt = Append(ev[c].nyt, current(c).id)
    /\ ev'[c].new = ev[c].new /\ ev'[c].old = ev[c].old

\* C3: a game in which it is the user's turn and for which no marker is
\* stored is classified YourTurnNew whatever its move timestamp (0 included),
\* whether the user has no markers at all or only this game's is missing.
C3_FirstObservationNew ==
    [][ \A c \in Callers :
          (/\ ClassifyStep(c)
           /\ current(c).cp = ev[c].uid
           /\ ~hasMarker(moves, key(c), current(c).id))
              => FoundNew(c) ]_vars

\* a game with timestamp 0 was just found new for a user who has a marker
\* for another game only
C3_Witness ==
    \E c \in Callers :
        /\ ev[c].pc = "commit"
        /\ current(c).ts = 0
        /\ key(c) \in DOMAIN moves
        /\ ~hasMarker(moves, key(c), current(c).id)
        /\ ev[c].new = <<current(c).id>>

\* C4: with a marker T stored for (user, game) and the user to move, a
\* timestamp <= T is classified YourTurnOld and a timestamp > T YourTurnNew.
C4_MonotonicSuppression ==
    [][ \A c \in Callers :
          (/\ ClassifyStep(c)
           /\ current(c).cp = ev[c].uid
           /\ hasMarker(moves, key(c), current(c).id))
              => IF current(c).ts <= moves[key(c)][current(c).id]
                 THEN FoundOld(c) ELSE FoundNew(c) ]_vars

\* the first game, at its marker, was found old and the second one, past
\* its marker, new
C4_Witness ==
    \E c \in Callers :
        /\ ev[c].pc = "commit" /\ ev[c].i = 2
        /\ ev[c].old = <<ev[c].games[1].id>>
        /\ ev[c].new = <<ev[c].games[2].id>>
        /\ hasMarker(moves, key(c), ev[c].games[1].id)
        /\ hasMarker(moves, key(c), ev[c].games[2].id)
        /\ ev[c].games[1].ts = moves[key(c)][ev[c].games[1].id]
        /\ ev[c].games[2].ts > moves[key(c)][ev[c].games[2].id]

\* caller c has classified its whole snapshot again, right after the
\* evaluation summarised in prev, with the same snapshot
Reevaluated(c) ==
    /\ ev[c].pc = "save"
    /\ prev.uid = ev[c].uid
    /\ prev.games = ev[c].games

\* C5: evaluating a user a second time in succession with an unchanged
\* snapshot finds every game that was YourTurnNew the first time
\* YourTurnOld, changes no marker and starts no push.
C5_IdempotentRecheck ==
    \A c \in Callers :
        Reevaluated(c)
            => /\ \A j \in DOMAIN prev.new :
                     \E m \in DOMAIN ev[c].old : ev[c].old[m] = prev.new[j]
               /\ ev[c].new = <<>>
               /\ moves = prev.moves
               /\ ev[c].spawned = 0
               /\ \A k \in DOMAIN dispatches : dispatches[k].pc # "start"

\* a second evaluation after one that found two new games and pushed them
C5_Witness ==
    \E c \in Callers :
        /\ Reevaluated(c)
        /\ Len(prev.new) = 2
        /\ Len(pushLog) = 1

\* C6: a game whose current player is not the evaluated user is classified
\* NotYourTurn whatever its timestamp and the stored marker; the step
\* changes no marker, leads to no commit and adds nothing to the
\* notification list.
C6_TurnOwnershipGating ==
    [][ \A c \in Callers :
          (ClassifyStep(c) /\ current(c).cp # ev[c].uid)
              => /\ FoundNotYourTurn(c)
                 /\ ev'[c].ntg = ev[c].ntg
                 /\ ev'[c].pc = "loop"
                 /\ moves' = moves ]_vars

\* a game of the opponent's turn, with a timestamp past the stored marker,
\* was classified NotYourTurn
C6_Witness ==
    \E c \in Callers :
        /\ ev[c].pc = "loop" /\ ev[c].i = 2
        /\ ev[c].games[1].cp # ev[c].uid
        /\ ev[c].nyt = <<ev[c].games[1].id>>
        /\ hasMarker(moves, key(c), ev[c].games[1].id)
        /\ ev[c].games[1].ts > moves[key(c)][ev[c].games[1].id]

\* how often x occurs in the sequence q
Count(q, x) == Cardinality({j \in DOMAIN q : q[j] = x})

\* C7: the status of an evaluation partitions the snapshot: every entry is
\* in exactly one of not_your_turn, your_turn_new, your_turn_old, the lists
\* hold nothing else, and the games handed to the dispatcher are exactly
\* the your_turn_new list.
C7_Partition ==
    \A c \in Callers :
        ev[c].pc = "save"
            => /\ Len(ev[c].nyt) + Len(ev[c].new) + Len(ev[c].old) = Len(ev[c].games)
               /\ \A g \in GameIDs :
                     Count(ev[c].nyt, g) + Count(ev[c].new, g) + Count(ev[c].old, g)
                         = Count(ids(ev[c].games), g)
               /\ ev[c].nyt = ids(SelectSeq(ev[c].games, LAMBDA g : g.cp # ev[c].uid))
               /\ ids(ev[c].ntg) = ev[c].new
               /\ IF ev[c].new = <<>> THEN ev[c].spawned = 0
                  ELSE /\ ev[c].spawned \in DOMAIN dispatches
                       /\ ids(dispatches[ev[c].spawned].games) = ev[c].new

\* a snapshot of two games, one not the user's turn and one newly turned
C7_Witness ==
    \E c \in Callers :
        /\ ev[c].pc = "save"
        /\ Len(ev[c].games) = 2
        /\ Len(ev[c].nyt) = 1
        /\ Len(ev[c].new) = 1

\* the calls of the push transport made by goroutine k
CallsBy(k) == {n \in DOMAIN pushLog : pushLog[n].by = k}

\* the dispatch goroutines that were started and have not run yet
NotBegun == {k \in DOMAIN dispatches : dispatches[k].pc = "start"}

\* C8: an evaluation starts exactly one dispatch when at least one game is
\* newly turned and none otherwise; the dispatch makes exactly one push
\* (the user having a device token, the client being initialised), whose
\* badge is the number of newly turned games of the evaluation.
C8_Consolidation ==
    /\ \A c \in Callers :
          ev[c].pc = "save"
              => IF Len(ev[c].new) = 0
                 THEN ev[c].spawned = 0 /\ NotBegun = {}
                 ELSE /\ NotBegun = {ev[c].spawned}
                      /\ dispatches[ev[c].spawned].games = ev[c].ntg
                      /\ Len(ev[c].ntg) = Len(ev[c].new)
    /\ Len(dispatches) <= evals
    /\ \A k \in DOMAIN dispatches :
          /\ Cardinality(CallsBy(k)) <= 1
          /\ \A n \in CallsBy(k) :
                pushLog[n].notification.badge = Len(dispatches[k].games)
          /\ (/\ dispatches[k].pc = "done"
              /\ apnsClient
              /\ dispatches[k].user \in DOMAIN deviceTokens)
                 => Cardinality(CallsBy(k)) = 1

\* one push with badge 2 was sent for an evaluation with two new games
C8_Witness ==
    /\ Len(dispatches) = 1 /\ Len(pushLog) = 1
    /\ dispatches[1].pc = "done" /\ dispatches[1].outcome = "sent"
    /\ Len(dispatches[1].games) = 2
    /\ pushLog[1].notification.badge = 2

\* the step is goroutine k's lookup of the client and the device token
LookupStep(k) ==
    /\ k \in DOMAIN dispatches
    /\ dispatches[k].pc = "start"
    /\ dispatches'[k].pc # "start"

\* C10: a dispatch for a user without a device token calls no transport,
\* changes neither the table nor the file, and ends as a skip.
C10_NoDeviceSkip ==
    [][ \A k \in DOMAIN dispatches :
          (LookupStep(k) /\ dispatches[k].user \notin DOMAIN deviceTokens)
              => /\ dispatches'[k].pc = "done"
                 /\ dispatches'[k].outcome \in {"skip_no_device", "skip_no_client"}
                 /\ pushLog' = pushLog
                 /\ UNCHANGED <<moves, deviceTokens, lastNotificationTime, file>> ]_vars

\* a dispatch ended as skipped for want of a device token
C10_Witness ==
    \E k \in DOMAIN dispatches :
        /\ dispatches[k].pc = "done"
        /\ dispatches[k].outcome = "skip_no_device"
        /\ CallsBy(k) = {}
        /\ lastNotificationTime = EmptyMap

\* the games of the snapshot in which it is the user's turn, in snapshot order
YourTurn(games, userID) == SelectSeq(games, LAMBDA g : g.cp = userID)

\* C9: the push is built from the newly turned list alone: one game, the
\* body names it; several, the body gives their number and no name; the two
\* URLs, game_id and game_name come from the first game of the list, which
\* is the first newly turned game of the snapshot.
C9_PushContent ==
    \A n \in DOMAIN pushLog :
        LET p == pushLog[n].notification
            games == dispatches[pushLog[n].by].games
        IN  /\ Len(games) = 1
                  => /\ p.body.fmt \in {"It's your turn in: %s",
                                        "[%s] It's your turn in: %s"}
                     /\ p.body.name = games[1].name
            /\ Len(games) > 1
                  => /\ p.body.fmt \in {"It's your turn in %d games",
                                        "[%s] It's your turn in %d games"}
                     /\ p.body.count = Len(games)
                     /\ p.body.name = None
            /\ p.web_url = [fmt |-> "https://online-go.com/game/%d", id |-> games[1].id]
            /\ p.app_url = [fmt |-> "ogs://game/%d", id |-> games[1].id]
            /\ p.game_id = games[1].id
            /\ p.game_name = games[1].name
            /\ games[1] = YourTurn(prev.games, prev.uid)[1]

\* a push for two different new games, with ENVIRONMENT set
C9_Witness ==
    /\ Len(pushLog) = 1
    /\ environment = "staging"
    /\ Len(dispatches[1].games) = 2
    /\ dispatches[1].games[1].id # dispatches[1].games[2].id
    /\ pushLog[1].notification.game_id = dispatches[1].games[1].id

\* the last-notification time of user u is created or changed by the step
Notified(u) ==
    /\ u \in DOMAIN lastNotificationTime'
    /\ u \notin DOMAIN lastNotificationTime
          \/ lastNotificationTime'[u] # lastNotificationTime[u]

\* goroutine k ends in the step without a sent push: skipped, error, rejection
EndsUnsent(k) ==
    /\ dispatches[k].pc \in {"start", "push"}
    /\ dispatches'[k].pc = "done"

\* C11: a user's last-notification time changes only in the step that follows
\* a push to that user which the transport reported sent; a step in which a
\* goroutine ends on a skip, an error or a rejection leaves the table as it is.
C11_NotifiedOnlyWhenSent ==
    [][ /\ \A u \in DOMAIN lastNotificationTime' :
              Notified(u)
                 => \E k \in DOMAIN dispatches :
                       /\ dispatches[k].pc = "record"
                       /\ dispatches'[k].pc = "save"
                       /\ dispatches[k].outcome = "sent"
                       /\ dispatches[k].user = u
                       /\ \E n \in CallsBy(k) : pushLog[n].user = u
        /\ DOMAIN lastNotificationTime \subseteq DOMAIN lastNotificationTime'
        /\ \A k \in DOMAIN dispatches :
              EndsUnsent(k) => lastNotificationTime' = lastNotificationTime
      ]_vars

\* a goroutine whose push was sent has recorded the time and ended
C11_Witness ==
    \E k \in DOMAIN dispatches :
        /\ dispatches[k].outcome = "sent"
        /\ dispatches[k].pc = "done"
        /\ dispatches[k].user \in DOMAIN lastNotificationTime

\* the push of goroutine k failed: transport error or rejection
PushFailed(k) == dispatches[k].outcome \in {"error", "rejected"}

\* C12: when the push for newly turned games fails, their markers stay
\* committed: the next evaluation with the same snapshot finds each of them
\* YourTurnOld, finds nothing new and attempts no further push.
C12_FailedPushKeepsMarker ==
    \A k \in DOMAIN dispatches :
        PushFailed(k)
            => /\ \A j \in DOMAIN dispatches[k].games :
                     LET g == dispatches[k].games[j]
                     IN  /\ hasMarker(moves, dispatches[k].user, g.id)
                         /\ moves[dispatches[k].user][g.id] >= g.ts
               /\ \A c \in Callers :
                     Reevaluated(c)
                        => /\ \A j \in DOMAIN dispatches[k].games :
                                 \E m \in DOMAIN ev[c].old :
                                     ev[c].old[m] = dispatches[k].games[j].id
                           /\ ev[c].new = <<>>
                           /\ ev[c].spawned = 0
                           /\ Len(dispatches) = 1
                           /\ Len(pushLog) = 1

\* the evaluation after a rejected push has classified the same snapshot
C12_Witness ==
    \E c \in Callers :
        /\ Reevaluated(c)
        /\ Len(dispatches) = 1
        /\ dispatches[1].outcome = "rejected"
        /\ Len(ev[c].old) > 0

\* C13: at most one checkAllUsers call is in progress at any time; a tick
\* that fires during a cycle waits in the channel and starts nothing until
\* that cycle has ended.
C13_SingleFlight ==
    /\ sched.active <= 1
    /\ sched.active = 1 <=> sched.state = "running"
    /\ sched.state = "running" => sched.users # {}

\* a tick is pending while a cycle is visiting its users
C13_Witness ==
    /\ sched.state = "running"
    /\ sched.tick
    /\ sched.calls # <<>>

\* the cycle has visited every user it copied and its last call has returned
CycleComplete ==
    /\ sched.state = "running"
    /\ sched.todo = {}
    /\ returned("sched")

\* C14: in a cycle, every user that had a device address when the cycle
\* started is evaluated exactly once (getUserTurnStatus is called once for the
\* user), whatever non-empty string was accepted as the user_id.
C14_EveryUserOnce ==
    CycleComplete
        => \A userIDStr \in sched.users : Count(sched.calls, userIDStr) = 1

\* the step is a call of getUserTurnStatus by the cycle, for user u, that
\* returned an error
FetchFailed(u) ==
    /\ u \in sched.todo
    /\ u \in sched'.failed \ sched.failed

\* C15: when the fetch fails for one user of a cycle, the step changes no
\* marker and no last-notification time, writes no file and starts no push;
\* the users not yet visited stay to be visited, the cycle keeps running, a
\* cycle with failures can end like any other and the next tick can start
\* a new one.
C15_FetchFailureIsolated ==
    /\ [][ \A u \in SchedIDs :
              FetchFailed(u)
                 => /\ moves' = moves
                    /\ lastNotificationTime' = lastNotificationTime
                    /\ file' = file
                    /\ dispatches' = dispatches
                    /\ pushLog' = pushLog
                    /\ sched'.todo = sched.todo \ {u}
                    /\ sched'.state = "running"
                    /\ returned("sched")'
         ]_vars
    /\ [](CycleComplete => ENABLED CycleEnd)
    /\ [](sched.state = "idle" /\ sched.tick => ENABLED CycleStart)

\* the cycle's first call failed and its second has found a new turn
C15_Witness ==
    /\ Len(sched.calls) = 2
    /\ sched.failed = {sched.calls[1]}
    /\ ev["sched"].pc = "save"
    /\ ev["sched"].new # <<>>

\* the step is registerDevice storing the token of a validated request
Stores == reg.pc = "idle" /\ reg'.pc = "save"

\* C16: the table holds one device token per user, and it is the token of
\* the latest registration accepted for that user: a registration replaces
\* the user's token by its own and touches no other user's, and nothing
\* but a registration changes the table.
C16_LastWriteWins ==
    [][ /\ deviceTokens' # deviceTokens => Stores
        /\ Stores
              => /\ reg'.req.json
                 /\ DOMAIN deviceTokens' = DOMAIN deviceTokens \cup {reg'.req.user_id}
                 /\ deviceTokens'[reg'.req.user_id] = reg'.req.device_token
                 /\ \A u \in DOMAIN deviceTokens \ {reg'.req.user_id} :
                       deviceTokens'[u] = deviceTokens[u]
      ]_vars

\* a second registration of user "1" has replaced the token the file still
\* shows
C16_Witness ==
    /\ reg.pc = "save"
    /\ reg.req.user_id = "1"
    /\ reg.req.device_token = "tokB"
    /\ deviceTokens["1"] = "tokB"
    /\ file # noFile
    /\ "1" \in DOMAIN file[2]["device_tokens"][2]
    /\ file[2]["device_tokens"][2]["1"] = JStr("tokA")

\* the step writes the response of endpoint ep
Answered(ep) == http' # http /\ http'.ep = ep

\* path values of the model that are not integers
NotInteger == {"x"}

\* a body of POST /register that fails validation
InvalidRegistration(r) == ~r.json \/ r.user_id = "" \/ r.device_token = ""

\* the step answers a request that fails input validation
AnswersInvalid ==
    \/ Answered("register") /\ InvalidRegistration(http'.arg)
    \/ /\ Answered("check") \/ Answered("diagnostics")
       /\ http'.arg.userID \in NotInteger

\* C17: a request that fails validation is answered 400 with a fixed
\* message, without a call of getActiveGames and without any change to the
\* three tables or to the state file.
C17_InvalidInputRejected ==
    [][ AnswersInvalid
           => /\ http'.status = 400
              /\ http'.body \in {errorBody("Invalid JSON"),
                                 errorBody("user_id and device_token are required"),
                                 errorBody("Invalid user ID")}
              /\ http'.ep = "register" <=> http'.body # errorBody("Invalid user ID")
              /\ ~http'.fetched
              /\ evals' = evals
              /\ moves' = moves
              /\ deviceTokens' = deviceTokens
              /\ lastNotificationTime' = lastNotificationTime
              /\ file' = file
      ]_vars

\* a registration without device_token was refused while a user is registered
C17_Witness ==
    /\ http = response("register", registration(TRUE, "1", ""), 400,
                       errorBody("user_id and device_token are required"), FALSE)
    /\ deviceTokens # EmptyMap
    /\ file # noFile

\* C18: GET /check/{userID} with an ID that parses is answered 200 when the
\* snapshot was fetched and 503 when the upstream is unavailable, and with
\* no other status.
C18_CheckStatus ==
    (http.ep = "check" /\ http.arg.userID \notin NotInteger)
        => \/ http.status = 200 /\ http.fetched
           \/ http.status = 503

\* C19: the answer to GET /users-by-token/{deviceToken} lists a user exactly
\* when the table, as it is at that step, maps the user to the requested
\* token; the step changes nothing else.
C19_UsersByToken ==
    [][ (Answered("users-by-token") /\ http'.status = 200)
           => /\ \A u \in HttpIDs \cup SchedIDs :
                    u \in http'.body.user_ids
                       <=> /\ u \in DOMAIN deviceTokens
                           /\ deviceTokens[u] = http'.arg.deviceToken
              /\ http'.body.user_ids \subseteq DOMAIN deviceTokens
              /\ deviceTokens' = deviceTokens
              /\ file' = file
      ]_vars

\* the lookup of tokA names user "2" only, user "1" holding tokB
C19_Witness ==
    /\ http.ep = "users-by-token"
    /\ http.status = 200
    /\ http.arg.deviceToken = "tokA"
    /\ http.body.user_ids = {"2"}
    /\ DOMAIN deviceTokens = {"1", "2"}
    /\ deviceTokens["1"] = "tokB"

\* the strings a response body carries
strings(h) ==
    IF h.status >= 400 THEN {h.body.error}
    ELSE CASE h.ep = "users-by-token" -> {h.body.device_token} \cup h.body.user_ids
           [] h.ep = "diagnostics" ->
                 {h.body.user_id, h.body.device_token_preview,
                  h.body.server_check_interval}
                 \cup {h.body.monitored_games[j].game_name :
                          j \in DOMAIN h.body.monitored_games}
           [] h.ep \in {"register", "health"} -> {h.body.status}
           [] OTHER -> {}

\* the device tokens the table holds
Addresses == {deviceTokens[u] : u \in DOMAIN deviceTokens}

\* C20: no response body carries a device token the table holds when the
\* response is written.
C20_NoAddressInResponse ==
    [][ \A ep \in {"check", "register", "users-by-token", "health", "diagnostics"} :
           Answered(ep) => strings(http') \cap Addresses = {}
      ]_vars

\* time.Duration printed with %v, for the intervals of the model
durationString(seconds) ==
    CASE seconds = 30 -> "30s" [] seconds = 2 -> "2s" [] seconds = 1 -> "1s"
      [] OTHER -> "?"

\* C21: the diagnostics of a user report as server_check_interval the
\* interval startPeriodicChecking runs its ticker with.
C21_ReportedInterval ==
    http.ep = "diagnostics" /\ http.status = 200
        => http.body.server_check_interval = durationString(sched.interval)

\* the markers of a table: user, game and last move
Markers(mv) == UNION {{<<u, g, mv[u][g]>> : g \in DOMAIN mv[u]} : u \in DOMAIN mv}

\* C22: after loadStorage has read a file of the old format, the table holds
\* exactly the markers of the file, each with the last move the file has for
\* it, and the device-token and notification-time maps are non-nil and empty.
C22_OldFormatLoaded ==
    boot.pc = "loaded" /\ file \in OldFormatFiles
        => /\ DOMAIN moves = DOMAIN file[2]
           /\ \A u \in DOMAIN moves :
                  /\ {Itoa(g) : g \in DOMAIN moves[u]} = DOMAIN file[2][u][2]
                  /\ \A g \in DOMAIN moves[u] :
                         file[2][u][2][Itoa(g)] = JNum(moves[u][g])
           /\ deviceTokens = EmptyMap
           /\ lastNotificationTime = EmptyMap
           /\ boot.nil = {}

\* an old-format file with a marker for each of the two games has been loaded
C22_Witness ==
    /\ boot.pc = "loaded"
    /\ file \in OldFormatFiles
    /\ "1" \in DOMAIN moves
    /\ DOMAIN moves["1"] = GameIDs

\* C23: after loadStorage none of the three maps is nil, whatever the file
\* holds, and a file that is absent, not JSON, null, an array, an empty
\* object or damaged leaves the three maps empty.
C23_NeverNil ==
    boot.pc = "loaded"
        => /\ boot.nil = {}
           /\ file \in {noFile, notJSON, JNull, JArr, JObj(EmptyMap)} \cup DamagedFiles
                  => /\ moves = EmptyMap
                     /\ deviceTokens = EmptyMap
                     /\ lastNotificationTime = EmptyMap

notifiedAt(userID) ==
    IF userID \in DOMAIN lastNotificationTime THEN lastNotificationTime[userID] ELSE 0

\* C25: a game in which it is the user's turn goes into the notification
\* exactly when its last move is later than the last-notification time
\* stored for the user, and a sent notification stores a current timestamp
\* as the user's last-notification time.
C25_NewerThanNotification ==
    [][ /\ \A c \in Callers :
              (ClassifyStep(c) /\ current(c).cp = ev[c].uid)
                  => (FoundNew(c) <=> current(c).ts > notifiedAt(key(c)))
        /\ \A k \in DOMAIN dispatches :
              (dispatches[k].pc = "record" /\ dispatches'[k].pc = "save")
                  => /\ dispatches[k].user \in DOMAIN lastNotificationTime'
                     /\ lastNotificationTime'[dispatches[k].user] \in Times
      ]_vars

\* the step is caller c's saveStorage() at the end of its evaluation
SaveStep(c) == ev[c].pc = "save" /\ ev'[c].pc # "save"

\* the step is the scheduler's call of getUserTurnStatus for its next user
NextUserStep == ev["sched"].pc # "loop" /\ ev'["sched"].pc = "loop"

\* C27: the saveStorage() of an evaluation comes after the push attempt of
\* the goroutine the evaluation started has ended, and the scheduler goes
\* on to its next user with every marker saved.
C27_SavedAfterPush ==
    [][ /\ \A c \in Callers :
              (SaveStep(c) /\ ev[c].spawned # 0)
                  => dispatches[ev[c].spawned].pc \in {"save", "done"}
        /\ NextUserStep
              => /\ file # noFile
                 /\ file[2]["moves"] = encodeMoves(moves, FALSE)
      ]_vars

\* caller c has gone through its whole snapshot: every game is in one of
\* the three lists, and every new-turn game has its marker
Complete(c) ==
    /\ Len(ev[c].nyt) + Len(ev[c].new) + Len(ev[c].old) = Len(ev[c].games)
    /\ \A j \in DOMAIN ev[c].ntg :
          /\ hasMarker(moves, key(c), ev[c].ntg[j].id)
          /\ moves[key(c)][ev[c].ntg[j].id] >= ev[c].ntg[j].ts

\* C28: the dispatch goroutine of an evaluation is started with every game
\* of the snapshot classified and every new-turn marker committed, and a
\* call of the push transport is made by a goroutine that was started
\* before, for games whose markers are stored.
C28_ClassifiedBeforePush ==
    [][ /\ \A c \in Callers :
              (ev[c].pc = "loop" /\ ev'[c].pc = "save") => Complete(c)
        /\ \A n \in (DOMAIN pushLog') \ (DOMAIN pushLog) :
              /\ pushLog'[n].by \in DOMAIN dispatches
              /\ \A j \in DOMAIN dispatches[pushLog'[n].by].games :
                     hasMarker(moves, dispatches[pushLog'[n].by].user,
                               dispatches[pushLog'[n].by].games[j].id)
      ]_vars

\* the push of an evaluation has been handed to the transport while the
\* evaluation has still to save and return
C28_Witness ==
    \E c \in Callers, n \in DOMAIN pushLog :
        /\ ev[c].pc = "save"
        /\ ev[c].spawned = pushLog[n].by
        /\ Len(ev[c].games) > 0

Protected == {"register", "check", "diagnostics", "users-by-token"}

\* C26: a request to /register, /check, /diagnostics or /users-by-token
\* that carries no X-API-Key header is answered 401, without a fetch from the
\* upstream, and changes neither the tables nor the file nor starts a push.
\* The requests of the model are requests without the header.
C26_KeyRequired ==
    [][ /\ (http' # http /\ http'.ep \in Protected)
              => http'.status = 401 /\ ~http'.fetched
        /\ moves' = moves
        /\ deviceTokens' = deviceTokens
        /\ lastNotificationTime' = lastNotificationTime
        /\ file' = file
        /\ evals' = evals
        /\ pushLog' = pushLog
      ]_vars

\* C30: a step of an evaluation or of a dispatch goroutine leaves the
\* device tokens as they are, a step of the registration handler leaves the
\* markers and the last-notification times as they are, and the device
\* tokens change in no other step than a registration's.
C30_WriteOwnership ==
    [][ /\ (ev' # ev \/ dispatches' # dispatches) => deviceTokens' = deviceTokens
        /\ (reg' # reg \/ (http' # http /\ http'.ep = "register"))
              => /\ moves' = moves
                 /\ lastNotificationTime' = lastNotificationTime
        /\ deviceTokens' # deviceTokens => (reg.pc = "idle" /\ reg'.pc = "save")
        /\ moves' # moves => \E c \in Callers : CommitStep(c)
        /\ lastNotificationTime' # lastNotificationTime
              => \E k \in DOMAIN dispatches :
                    dispatches[k].pc = "record" /\ dispatches'[k].pc = "save"
      ]_vars

\* a registration has been answered for a user who has a marker and a
\* last-notification time, and both are still there
C30_Witness ==
    /\ http.ep = "register" /\ http.status = 200
    /\ http.arg.user_id \in DOMAIN moves
    /\ http.arg.user_id \in DOMAIN lastNotificationTime
    /\ http.arg.user_id \in DOMAIN deviceTokens

\* C39: for every value of CHECK_INTERVAL_SECONDS (unset, non-numeric, zero,
\* negative, positive) the scheduler starts and keeps running: no value
\* makes the scheduler goroutine panic.
C39_SchedulerStarts == sched.state # "panicked"

\* C38: when a scheduled cycle evaluates the user registered under the
\* string s, the markers are stored and the device address is looked up under
\* that same key s, so a dispatch of the scheduler always finds the address:
\* for every s, numeric strings in non-canonical form included.
C38_SameKey ==
    /\ (sched.state = "running" /\ sched.calls # <<>> /\ ~returned("sched"))
          => key("sched") = sched.calls[Len(sched.calls)]
    /\ \A k \in DOMAIN dispatches :
          dispatches[k].outcome # "skip_no_device"

\* C31: every poll cycle that starts eventually completes and the scheduler
\* is back waiting for the next tick, the fetches returning or timing out,
\* even when a push call never returns: the cycle does not wait for the
\* dispatch goroutines.
C31_CycleCompletes == (sched.state = "running") ~> (sched.state = "idle")

\* a cycle that evaluated a user has completed while a push it started has not
\* returned
C31_Witness ==
    /\ sched.state = "idle"
    /\ evals > 0
    /\ \E k \in DOMAIN dispatches : dispatches[k].pc = "push"

\* goroutine k ended without handing anything to the transport: no device
\* address for its user, or no push client
Skipped(k) == dispatches[k].outcome \in {"skip_no_device", "skip_no_client"}

\* C37: when a user is evaluated while it has no device address, or while the
\* push transport is not initialised, the markers of its newly-turned games are
\* committed all the same; afterwards, registered or not, an unchanged game
\* is classified YourTurnOld and no push is ever sent for those moves.
C37_SkippedMovesCommitted ==
    /\ [](\A k \in DOMAIN dispatches :
            Skipped(k) =>
               \A j \in DOMAIN dispatches[k].games :
                  LET g == dispatches[k].games[j]
                      u == dispatches[k].user
                  IN  /\ hasMarker(moves, u, g.id)
                      /\ moves[u][g.id] >= g.ts
                      /\ Pushed(u, g.id, g.ts) = {})
    /\ [][ \A k \in DOMAIN dispatches, c \in Callers :
             (/\ Skipped(k)
              /\ ClassifyStep(c)
              /\ key(c) = dispatches[k].user
              /\ current(c).cp = ev[c].uid
              /\ \E j \in DOMAIN dispatches[k].games :
                    /\ dispatches[k].games[j].id = current(c).id
                    /\ dispatches[k].games[j].ts = current(c).ts)
                 => FoundOld(c) ]_vars

\* a user evaluated without a device address has registered since, and the
\* same move has just been found old with the push client initialised
C37_Witness ==
    \E k \in DOMAIN dispatches :
        /\ dispatches[k].outcome = "skip_no_device"
        /\ apnsClient
        /\ dispatches[k].user \in DOMAIN deviceTokens
        /\ ev["check"].pc = "save"
        /\ key("check") = dispatches[k].user
        /\ ev["check"].old = <<dispatches[k].games[1].id>>
        /\ ev["check"].games[1].ts = dispatches[k].games[1].ts
        /\ pushLog = <<>>

\* the step is the answer of GET /diagnostics/{user_id}
DiagnosticsStep == http'.ep = "diagnostics" /\ http' # http

\* C35: GET /diagnostics/{user_id} changes no marker, device address or
\* last-notification time, dispatches no push and writes no state file, so
\* every move that would be classified as new before the request is
\* classified as new after it.
C35_DiagnosticsReadOnly ==
    [][ DiagnosticsStep
          => /\ UNCHANGED <<moves, deviceTokens, lastNotificationTime>>
             /\ UNCHANGED <<dispatches, pushLog, file>>
             /\ \A u \in SchedIDs, g \in GameIDs, ts \in Ts :
                   isNewTurn(moves, u, g, ts) => isNewTurn(moves', u, g, ts) ]_vars

\* diagnostics have shown a registered user a game in which it is to move
\* and for which no marker is stored
C35_Witness ==
    /\ http.ep = "diagnostics" /\ http.status = 200
    /\ http.body.device_token_registered
    /\ http.body.total_active_games = 1
    /\ http.body.monitored_games[1].is_your_turn
    /\ ~hasMarker(moves, http.body.user_id, http.body.monitored_games[1].game_id)

\* the step is goroutine k's write of its user's last-notification time
RecordStep(k) ==
    /\ k \in DOMAIN dispatches
    /\ dispatches[k].pc = "record"
    /\ dispatches'[k].pc = "save"

\* map m2 is map m1 but for the entry of key k
OnlyEntry(m1, m2, k) ==
    /\ DOMAIN m2 = DOMAIN m1 \cup {k}
    /\ \A x \in DOMAIN m1 \ {k} : m2[x] = m1[x]

MarkerKeys(mv) == UNION {{<<u, g>> : g \in DOMAIN mv[u]} : u \in DOMAIN mv}

\* C33: no step after startup removes a user's device address, a (user,
\* game) marker or a last-notification time: the key sets of the three maps
\* only grow.
C33_KeysOnlyGrow ==
    [][ /\ DOMAIN deviceTokens \subseteq DOMAIN deviceTokens'
        /\ DOMAIN lastNotificationTime \subseteq DOMAIN lastNotificationTime'
        /\ DOMAIN moves \subseteq DOMAIN moves'
        /\ MarkerKeys(moves) \subseteq MarkerKeys(moves') ]_vars

\* the three maps have entries and a second user has registered with the
\* address of the first
C33_Witness ==
    /\ DOMAIN deviceTokens = {"1", "2"}
    /\ deviceTokens["1"] = deviceTokens["2"]
    /\ MarkerKeys(moves) # {}
    /\ DOMAIN lastNotificationTime # {}

\* C34: whenever no request is being served and no goroutine is running,
\* moves.json holds the in-memory tables (markers, device addresses,
\* last-notification times): each mutation, the notification time written by
\* a dispatch goroutine included, is followed by a save that captures it, and
\* no save leaves an older state in the file.  Before the first save there is
\* no file and the tables are empty.
C34_FileMatchesTables ==
    Idle =>
       IF file = noFile
       THEN moves = EmptyMap /\ deviceTokens = EmptyMap
                /\ lastNotificationTime = EmptyMap
       ELSE file = saveStorage(moves, deviceTokens, lastNotificationTime, boot.nil)

\* all is quiet after two registrations and a push that was sent
C34_Witness ==
    /\ Idle
    /\ DOMAIN deviceTokens = {"1", "2"}
    /\ MarkerKeys(moves) # {}
    /\ DOMAIN lastNotificationTime # {}
    /\ file # noFile

\* C36: no interleaving of the scheduler, manual checks, registrations,
\* diagnostics, reverse lookups and dispatch goroutines deadlocks on
\* storage.mu: no goroutine calls Lock or RLock while it holds the lock, a
\* goroutine that holds the lock releases it, and a goroutine blocked in
\* Lock or RLock gets the lock: it is not held for ever, it is not waited for
\* for ever, and waiting ends with the lock.
C36_NoDeadlock ==
    /\ [](\A g \in Goroutines :
            nextCall(g) \in {"Lock", "RLock"} => ~Holding(g))
    /\ [][\A g \in Goroutines :
            (Blocked(g) /\ ~Blocked(g)') => Holding(g)']_vars
    /\ \A g \in Goroutines : []<>~Holding(g) /\ []<>~Blocked(g)

\* a writer has announced itself and waits for a reader to leave, with
\* another writer and a reader blocked behind it
C36_Witness ==
    /\ mu.m # None /\ mu.w = None
    /\ mu.r # {}
    /\ mu.wq # {}
    /\ mu.rq # {}

====
